---- MODULE Spec2Model ----
(***************************************************************************)
(* A model of the in-memory COCO dataset engine of src/structures/coco.py. *)
(*                                                                         *)
(* A dataset is a record with the fields of the COCO dataclass.  Python    *)
(* objects are mutable and are found by position in their list, so an      *)
(* operator that takes "a license of the dataset" takes its position i.    *)
(* Every method is an operator from a dataset to a result                  *)
(* [d |-> dataset after the call, err |-> "" or the exception raised]:     *)
(* an exception leaves the mutations made before it in place, as in the    *)
(* code.  The snake_case operators are the methods; the CamelCase actions  *)
(* apply a method to the dataset `self`.                                   *)
(***************************************************************************)
EXTENDS Integers, Sequences, FiniteSets, TLC

VARIABLES
    self,     \* the COCO dataset the calls are made on
    other,    \* the caller's second dataset, the argument of combine
    start,    \* self as it was constructed
    before,   \* self before the last call
    calls,    \* the calls made so far, the last one last
    budget,   \* the number of calls the behaviour may still make
    split_datasets,  \* the tuple of datasets the last split returned
    result    \* what the last query returned

vars == <<self, other, start, before, calls, budget, split_datasets, result>>

(***************************************************************************)
(* Bounds of the model.                                                    *)
(***************************************************************************)
MaxId == 2        \* ids of the constructed records are in 0..MaxId
MaxLen == 2       \* records per collection of a constructed dataset
MaxCalls == 1     \* calls per behaviour
MaxTripCalls == 2 \* calls per behaviour of SpecRoundTrip
RatioDen == 4 \* a percentage of split is a multiple of 1 / RatioDen
MaxNewIds == 3    \* calls per behaviour of SpecAllocator

\* Python's None where an int is expected (new_id: int = None).
None == -1

\* What __get_annotation_category_ids answers for an annotation with no category.
NoCategoryId == -1

(***************************************************************************)
(* Sequences.                                                              *)
(***************************************************************************)
Range(s) == {s[k] : k \in DOMAIN s}

Max(S) == CHOOSE x \in S : \A y \in S : y <= x

Distinct(s) == \A j, k \in DOMAIN s : j # k => s[j] # s[k]

\* The position of the first element of s that equals x (s.index(x) + 1).
IndexOf(s, x) == CHOOSE k \in DOMAIN s : s[k] = x /\ \A j \in 1..(k - 1) : s[j] # x

\* list.remove(x): s without its first element equal to x.
RemoveFirst(s, x) ==
    LET k == IndexOf(s, x)
    IN  [j \in 1..(Len(s) - 1) |-> IF j < k THEN s[j] ELSE s[j + 1]]

SeqsUpTo(S, n) == UNION {[1..k -> S] : k \in 0..n}

(***************************************************************************)
(* Records.  An annotation carries its variant in `kind`; the fields a     *)
(* variant does not have hold None / <<>> and are never read for it.       *)
(***************************************************************************)
License(id, name) == [id |-> id, name |-> name]

Category(id, name, supercategory) ==
    [id |-> id, name |-> name, supercategory |-> supercategory]

Image(id, file_name, license) == [id |-> id, file_name |-> file_name, license |-> license]

SegmentInfo(id, category_id) == [id |-> id, category_id |-> category_id]

ObjectDetectionAnnotation(id, image_id, category_id) ==
    [kind |-> "object_detection", id |-> id, image_id |-> image_id,
     category_id |-> category_id, segments_info |-> <<>>]

PanopticSegmentationAnnotation(image_id, segments_info) ==
    [kind |-> "panoptic_segmentation", id |-> None, image_id |-> image_id,
     category_id |-> None, segments_info |-> segments_info]

ImageCaptioningAnnotation(id, image_id) ==
    [kind |-> "image_captioning", id |-> id, image_id |-> image_id,
     category_id |-> None, segments_info |-> <<>>]

\* isinstance(annotation, Indexed): the variant has an id.
Indexed(a) == a.kind \in {"object_detection", "image_captioning"}

\* isinstance(annotation, Categorized): the variant has a category_id.
Categorized(a) == a.kind = "object_detection"

IsPanoptic(a) == a.kind = "panoptic_segmentation"

\* isinstances(list, cls): every element is an instance.
isinstances(s, Test(_)) == \A k \in DOMAIN s : Test(s[k])

CategorizedOrPanoptic(a) == Categorized(a) \/ IsPanoptic(a)

(***************************************************************************)
(* The dataset.  categories is None exactly when has_categories is FALSE,  *)
(* and then holds <<>>.                                                    *)
(***************************************************************************)
COCO(licenses, has_categories, categories, images, annotations) ==
    [licenses |-> licenses,
     has_categories |-> has_categories,
     categories |-> categories,
     images |-> images,
     annotations |-> annotations,
     cached_license_ids |-> <<>>,
     cached_image_ids |-> <<>>,
     cached_category_ids |-> <<>>,
     cached_annotation_ids |-> <<>>]

\* `not self.categories`: None or empty.
no_categories(d) == ~d.has_categories \/ d.categories = <<>>

license_ids(d) == [k \in DOMAIN d.licenses |-> d.licenses[k].id]

license_names(d) == [k \in DOMAIN d.licenses |-> d.licenses[k].name]

image_ids(d) == [k \in DOMAIN d.images |-> d.images[k].id]

image_file_names(d) == [k \in DOMAIN d.images |-> d.images[k].file_name]

category_ids(d) ==
    IF no_categories(d) THEN <<>>
    ELSE [k \in DOMAIN d.categories |-> d.categories[k].id]

category_names(d) ==
    IF no_categories(d) THEN <<>>
    ELSE [k \in DOMAIN d.categories |-> d.categories[k].name]

annotation_ids(d) ==
    LET indexed == SelectSeq(d.annotations, Indexed)
    IN  [k \in DOMAIN indexed |-> indexed[k].id]

Ok(d) == [d |-> d, err |-> ""]

Raise(d, err) == [d |-> d, err |-> err]

(***************************************************************************)
(* The identifier allocator.                                               *)
(***************************************************************************)
trim_cached_license_ids(d) ==
    [d EXCEPT !.cached_license_ids =
        SelectSeq(@, LAMBDA c : c \notin Range(license_ids(d)))]

trim_cached_image_ids(d) ==
    [d EXCEPT !.cached_image_ids =
        SelectSeq(@, LAMBDA c : c \notin Range(image_ids(d)))]

trim_cached_category_ids(d) ==
    [d EXCEPT !.cached_category_ids =
        SelectSeq(@, LAMBDA c : c \notin Range(category_ids(d)))]

trim_cached_annotation_ids(d) ==
    [d EXCEPT !.cached_annotation_ids =
        SelectSeq(@, LAMBDA c : c \notin Range(annotation_ids(d)))]

\* A __generate_new_id that forgets `cached_ids.append(new_id)`.
generate_new_id_unreserved(present_ids, cached_ids) ==
    IF present_ids \o cached_ids = <<>>
    THEN [err |-> "ValueError", id |-> None, cached |-> cached_ids]
    ELSE [err |-> "", id |-> Max(Range(present_ids \o cached_ids)) + 1,
          cached |-> cached_ids]

\* An allocator that starts at 0 when there is no id to take the max of.
generate_new_id_from_zero(present_ids, cached_ids) ==
    LET new_id == IF present_ids \o cached_ids = <<>> THEN 0
                  ELSE Max(Range(present_ids \o cached_ids)) + 1
    IN  [err |-> "", id |-> new_id, cached |-> Append(cached_ids, new_id)]

\* max(present_ids + cached_ids) + 1, appended to the cache; max() of an
\* empty list raises ValueError before anything is appended.
generate_new_id(present_ids, cached_ids) ==
    IF present_ids \o cached_ids = <<>>
    THEN [err |-> "ValueError", id |-> None, cached |-> cached_ids]
    ELSE LET new_id == Max(Range(present_ids \o cached_ids)) + 1
         IN  [err |-> "", id |-> new_id, cached |-> Append(cached_ids, new_id)]

get_new_license_id(d) ==
    LET g == generate_new_id(license_ids(d), d.cached_license_ids)
    IN  [d |-> [d EXCEPT !.cached_license_ids = g.cached], err |-> g.err, id |-> g.id]

get_new_category_id(d) ==
    LET g == generate_new_id(category_ids(d), d.cached_category_ids)
    IN  [d |-> [d EXCEPT !.cached_category_ids = g.cached], err |-> g.err, id |-> g.id]

get_new_image_id(d) ==
    LET g == generate_new_id(image_ids(d), d.cached_image_ids)
    IN  [d |-> [d EXCEPT !.cached_image_ids = g.cached], err |-> g.err, id |-> g.id]

get_new_annotation_id(d) ==
    LET g == generate_new_id(annotation_ids(d), d.cached_annotation_ids)
    IN  [d |-> [d EXCEPT !.cached_annotation_ids = g.cached], err |-> g.err, id |-> g.id]

clear_cached_ids(d) ==
    [d EXCEPT !.cached_license_ids = <<>>, !.cached_image_ids = <<>>,
              !.cached_category_ids = <<>>, !.cached_annotation_ids = <<>>]

(***************************************************************************)
(* The query layer, as far as the mutations use it.  A lookup that the     *)
(* code answers with an object answers here with the object's position,    *)
(* 0 for None.                                                             *)
(***************************************************************************)
\* get_license(id: int)
get_license_by_id(d, id) ==
    IF id \notin Range(license_ids(d)) THEN 0 ELSE IndexOf(license_ids(d), id)

\* get_license(name: str)
get_license_by_name(d, name) ==
    IF name \notin Range(license_names(d)) THEN 0 ELSE IndexOf(license_names(d), name)

\* get_category(id: int)
get_category_by_id(d, id) ==
    IF no_categories(d) THEN 0
    ELSE IF id \notin Range(category_ids(d)) THEN 0 ELSE IndexOf(category_ids(d), id)

\* get_category(name: str)
get_category_by_name(d, name) ==
    IF no_categories(d) THEN 0
    ELSE IF name \notin Range(category_names(d)) THEN 0
    ELSE IndexOf(category_names(d), name)

\* get_image(id: int)
get_image_by_id(d, id) ==
    IF id \notin Range(image_ids(d)) THEN 0 ELSE IndexOf(image_ids(d), id)

\* get_image(file_name: str)
get_image_by_file_name(d, file_name) ==
    IF file_name \notin Range(image_file_names(d)) THEN 0
    ELSE IndexOf(image_file_names(d), file_name)

\* get_annotation(id), called where id is in annotation_ids: the position of the
\* first Indexed annotation with that id.
get_annotation(d, id) ==
    CHOOSE k \in DOMAIN d.annotations :
        /\ Indexed(d.annotations[k]) /\ d.annotations[k].id = id
        /\ \A j \in 1..(k - 1) : ~(Indexed(d.annotations[j]) /\ d.annotations[j].id = id)

\* get_images(license: License) and get_images(license_id: int): the positions
\* of the images whose license is that id.
get_images_by_license(d, license_id) ==
    {k \in DOMAIN d.images : d.images[k].license = license_id}

\* get_annotations(image: Image) and get_annotations(image_id: int).
get_annotations_by_image(d, image_id) ==
    {k \in DOMAIN d.annotations : d.annotations[k].image_id = image_id}

get_annotation_category_ids(a) ==
    IF Categorized(a) THEN <<a.category_id>>
    ELSE IF IsPanoptic(a)
         THEN [k \in DOMAIN a.segments_info |-> a.segments_info[k].category_id]
         ELSE <<NoCategoryId>>

\* get_annotations_by_category(category: Category): empty as soon as categories
\* is None or empty, or one annotation is neither Categorized nor Panoptic.
get_annotations_by_category(d, category_id) ==
    IF no_categories(d) \/ ~isinstances(d.annotations, CategorizedOrPanoptic)
    THEN {}
    ELSE {k \in DOMAIN d.annotations :
            category_id \in Range(get_annotation_category_ids(d.annotations[k]))}

\* The objects at the positions P of list s, in list order.
At(s, P) == LET pos == SelectSeq([k \in DOMAIN s |-> k], LAMBDA k : k \in P)
            IN  [j \in DOMAIN pos |-> s[pos[j]]]

(***************************************************************************)
(* append_<entity>                                                         *)
(***************************************************************************)
\* An append_license that does not look for the id among the license ids.
append_license_unchecked(d, license) ==
    Ok(trim_cached_license_ids([d EXCEPT !.licenses = Append(@, license)]))

append_license(d, license) ==
    IF license.id \in Range(license_ids(d)) THEN Raise(d, "ValueError")
    ELSE Ok(trim_cached_license_ids([d EXCEPT !.licenses = Append(@, license)]))

append_category(d, category) ==
    LET d1 == IF no_categories(d)
              THEN [d EXCEPT !.has_categories = TRUE, !.categories = <<>>]
              ELSE d
    IN  IF category.id \in Range(category_ids(d1)) THEN Raise(d1, "ValueError")
        ELSE Ok(trim_cached_category_ids([d1 EXCEPT !.categories = Append(@, category)]))

append_image(d, image) ==
    IF image.id \in Range(image_ids(d)) THEN Raise(d, "ValueError")
    ELSE Ok(trim_cached_image_ids([d EXCEPT !.images = Append(@, image)]))

append_annotation(d, annotation) ==
    IF Indexed(annotation) /\ annotation.id \in Range(annotation_ids(d))
    THEN Raise(d, "ValueError")
    ELSE Ok(trim_cached_annotation_ids([d EXCEPT !.annotations = Append(@, annotation)]))

RECURSIVE extend_licenses(_, _)
extend_licenses(r, licenses) ==
    IF licenses = <<>> \/ r.err # "" THEN r
    ELSE extend_licenses(append_license(r.d, Head(licenses)), Tail(licenses))

RECURSIVE extend_categories(_, _)
extend_categories(r, categories) ==
    IF categories = <<>> \/ r.err # "" THEN r
    ELSE extend_categories(append_category(r.d, Head(categories)), Tail(categories))

RECURSIVE extend_images(_, _)
extend_images(r, images) ==
    IF images = <<>> \/ r.err # "" THEN r
    ELSE extend_images(append_image(r.d, Head(images)), Tail(images))

\* An extend_annotations that goes on with the next annotation after one failed.
RECURSIVE extend_annotations_skipping(_, _)
extend_annotations_skipping(r, annotations) ==
    IF annotations = <<>> THEN r
    ELSE LET a == append_annotation(r.d, Head(annotations))
         IN  extend_annotations_skipping(
                 [d |-> a.d, err |-> IF r.err # "" THEN r.err ELSE a.err],
                 Tail(annotations))

RECURSIVE extend_annotations(_, _)
extend_annotations(r, annotations) ==
    IF annotations = <<>> \/ r.err # "" THEN r
    ELSE extend_annotations(append_annotation(r.d, Head(annotations)), Tail(annotations))

(***************************************************************************)
(* remove_<entity>.  `x in list` and list.remove(x) compare dataclasses by *)
(* the values of their fields.                                             *)
(***************************************************************************)
remove_annotation(d, annotation) ==
    IF annotation \notin Range(d.annotations) THEN d
    ELSE [d EXCEPT !.annotations = RemoveFirst(@, annotation)]

\* A remove_annotaitons that removes the first annotation of the list only.
remove_annotaitons_first_only(d, annotations) ==
    IF annotations = <<>> THEN d ELSE remove_annotation(d, Head(annotations))

RECURSIVE remove_annotaitons(_, _)
remove_annotaitons(d, annotations) ==
    IF annotations = <<>> THEN d
    ELSE remove_annotaitons(remove_annotation(d, Head(annotations)), Tail(annotations))

remove_image(d, image, remove_annotations) ==
    IF image \notin Range(d.images) THEN d
    ELSE LET d1 == [d EXCEPT !.images = RemoveFirst(@, image)]
         IN  IF remove_annotations
             THEN remove_annotaitons(d1,
                      At(d1.annotations, get_annotations_by_image(d1, image.id)))
             ELSE d1

\* A remove_images that does not pass remove_annotations on to remove_image.
RECURSIVE remove_images_without_annotations(_, _, _)
remove_images_without_annotations(d, images, remove_annotations) ==
    IF images = <<>> THEN d
    ELSE remove_images_without_annotations(remove_image(d, Head(images), FALSE),
                                           Tail(images), remove_annotations)

RECURSIVE remove_images(_, _, _)
remove_images(d, images, remove_annotations) ==
    IF images = <<>> THEN d
    ELSE remove_images(remove_image(d, Head(images), remove_annotations),
                       Tail(images), remove_annotations)

remove_license(d, license, rm_images, rm_annotations) ==
    IF license \notin Range(d.licenses) THEN d
    ELSE LET d1 == [d EXCEPT !.licenses = RemoveFirst(@, license)]
         IN  IF rm_images
             THEN remove_images(d1, At(d1.images, get_images_by_license(d1, license.id)),
                                rm_annotations)
             ELSE d1

remove_category(d, category, remove_annotations) ==
    IF no_categories(d) THEN d
    ELSE IF category \notin Range(d.categories) THEN d
    ELSE LET d1 == [d EXCEPT !.categories = RemoveFirst(@, category)]
         IN  IF remove_annotations
             THEN remove_annotaitons(d1,
                      At(d1.annotations, get_annotations_by_category(d1, category.id)))
             ELSE d1

(***************************************************************************)
(* The reindex engine.                                                     *)
(***************************************************************************)
\* range(len(list)) as a list of ids.
RangeIds(s) == [k \in DOMAIN s |-> k - 1]

reindex_license(d, i, new_id) ==
    LET g == IF new_id = None THEN get_new_license_id(d)
             ELSE [d |-> d, err |-> "", id |-> new_id]
    IN  IF g.err # "" THEN Raise(g.d, g.err)
        ELSE LET mine == get_images_by_license(g.d, g.d.licenses[i].id)
             IN  Ok([g.d EXCEPT
                       !.images = [k \in DOMAIN @ |->
                                     IF k \in mine THEN [@[k] EXCEPT !.license = g.id]
                                     ELSE @[k]],
                       !.licenses[i].id = g.id])

\* The first loop of reindex_licenses, from new_ids[k] on: the license that
\* holds a new id moves to a generated id.
RECURSIVE displace_licenses(_, _, _)
displace_licenses(r, new_ids, k) ==
    IF k > Len(new_ids) \/ r.err # "" THEN r
    ELSE IF new_ids[k] \in Range(license_ids(r.d))
         THEN LET duplicated_license == get_license_by_id(r.d, new_ids[k])
                  g == get_new_license_id(r.d)
              IN  displace_licenses(
                      IF g.err # "" THEN Raise(g.d, g.err)
                      ELSE reindex_license(g.d, duplicated_license, g.id),
                      new_ids, k + 1)
         ELSE displace_licenses(r, new_ids, k + 1)

\* The second loop of reindex_licenses, from the k-th license on.
RECURSIVE assign_licenses(_, _, _)
assign_licenses(r, new_ids, k) ==
    IF k > Len(new_ids) \/ r.err # "" THEN r
    ELSE assign_licenses(reindex_license(r.d, k, new_ids[k]), new_ids, k + 1)

\* new_ids = <<>> is both None and the empty list (`if not new_ids`).
reindex_licenses(d, new_ids) ==
    LET ids == IF new_ids = <<>> THEN RangeIds(d.licenses) ELSE new_ids
    IN  IF Len(ids) # Len(d.licenses) THEN Raise(d, "ValueError")
        ELSE assign_licenses(displace_licenses(Ok(d), ids, 1), ids, 1)

\* The category ids an annotation holds, with old_id rewritten to new_id.
rewrite_category(a, old_id, new_id) ==
    IF Categorized(a) THEN [a EXCEPT !.category_id = new_id]
    ELSE IF IsPanoptic(a)
         THEN [a EXCEPT !.segments_info = [k \in DOMAIN @ |->
                 IF @[k].category_id = old_id THEN [@[k] EXCEPT !.category_id = new_id]
                 ELSE @[k]]]
         ELSE a

reindex_category(d, i, new_id) ==
    IF no_categories(d) THEN Ok(d)
    ELSE LET g == IF new_id = None THEN get_new_category_id(d)
                  ELSE [d |-> d, err |-> "", id |-> new_id]
         IN  IF g.err # "" THEN Raise(g.d, g.err)
             ELSE LET old_id == g.d.categories[i].id
                      mine == get_annotations_by_category(g.d, old_id)
                  IN  Ok([g.d EXCEPT
                            !.annotations = [k \in DOMAIN @ |->
                                IF k \in mine THEN rewrite_category(@[k], old_id, g.id)
                                ELSE @[k]],
                            !.categories[i].id = g.id])

\* The loop of reindex_categories, from the k-th category on.
RECURSIVE assign_categories(_, _, _)
assign_categories(r, new_ids, k) ==
    IF k > Len(new_ids) \/ r.err # "" THEN r
    ELSE LET d == r.d
             duplicated_category == get_category_by_id(d, new_ids[k])
             g == get_new_category_id(d)
             made_room ==
                 IF new_ids[k] \in Range(category_ids(d)) /\ duplicated_category # 0
                 THEN IF g.err # "" THEN Raise(g.d, g.err)
                      ELSE reindex_category(g.d, duplicated_category, g.id)
                 ELSE r
         IN  assign_categories(
                 IF made_room.err # "" THEN made_room
                 ELSE reindex_category(made_room.d, k, new_ids[k]),
                 new_ids, k + 1)

reindex_categories(d, new_ids) ==
    IF no_categories(d) THEN Ok(d)
    ELSE LET ids == IF new_ids = <<>> THEN RangeIds(d.categories) ELSE new_ids
         IN  IF Len(ids) # Len(d.categories) THEN Raise(d, "ValueError")
             ELSE assign_categories(Ok(d), ids, 1)

reindex_image(d, i, new_id) ==
    LET g == IF new_id = None THEN get_new_image_id(d)
             ELSE [d |-> d, err |-> "", id |-> new_id]
    IN  IF g.err # "" THEN Raise(g.d, g.err)
        ELSE LET mine == get_annotations_by_image(g.d, g.d.images[i].id)
             IN  Ok([g.d EXCEPT
                       !.annotations = [k \in DOMAIN @ |->
                                     IF k \in mine THEN [@[k] EXCEPT !.image_id = g.id]
                                     ELSE @[k]],
                       !.images[i].id = g.id])

\* The loop of reindex_images without the displacement of the image that
\* holds new_ids[k].
RECURSIVE assign_images_in_place(_, _, _)
assign_images_in_place(r, new_ids, k) ==
    IF k > Len(new_ids) \/ r.err # "" THEN r
    ELSE assign_images_in_place(reindex_image(r.d, k, new_ids[k]), new_ids, k + 1)

\* The loop of reindex_images, from the k-th image on.
RECURSIVE assign_images(_, _, _)
assign_images(r, new_ids, k) ==
    IF k > Len(new_ids) \/ r.err # "" THEN r
    ELSE LET d == r.d
             g == get_new_image_id(d)
             made_room ==
                 IF new_ids[k] \in Range(image_ids(d))
                 THEN IF g.err # "" THEN Raise(g.d, g.err)
                      ELSE reindex_image(g.d, get_image_by_id(d, new_ids[k]), g.id)
                 ELSE r
         IN  assign_images(
                 IF made_room.err # "" THEN made_room
                 ELSE reindex_image(made_room.d, k, new_ids[k]),
                 new_ids, k + 1)

reindex_images(d, new_ids) ==
    LET ids == IF new_ids = <<>> THEN RangeIds(d.images) ELSE new_ids
    IN  IF Len(ids) # Len(d.images) THEN Raise(d, "ValueError")
        ELSE assign_images(Ok(d), ids, 1)

reindex_annotation(d, i, new_id) ==
    LET g == IF new_id = None THEN get_new_annotation_id(d)
             ELSE [d |-> d, err |-> "", id |-> new_id]
    IN  IF g.err # "" THEN Raise(g.d, g.err)
        ELSE IF Indexed(g.d.annotations[i])
             THEN Ok([g.d EXCEPT !.annotations[i].id = g.id])
             ELSE Ok(g.d)

\* The loop of reindex_annotations, from the k-th annotation on.
RECURSIVE assign_annotations(_, _, _)
assign_annotations(r, new_ids, k) ==
    IF k > Len(new_ids) \/ r.err # "" THEN r
    ELSE LET d == r.d
             g == get_new_annotation_id(d)
             made_room ==
                 IF new_ids[k] \in Range(annotation_ids(d))
                 THEN IF g.err # "" THEN Raise(g.d, g.err)
                      ELSE reindex_annotation(g.d, get_annotation(d, new_ids[k]), g.id)
                 ELSE r
         IN  assign_annotations(
                 IF made_room.err # "" THEN made_room
                 ELSE reindex_annotation(made_room.d, k, new_ids[k]),
                 new_ids, k + 1)

reindex_annotations(d, new_ids) ==
    LET ids == IF new_ids = <<>> THEN RangeIds(d.annotations) ELSE new_ids
    IN  IF Len(ids) # Len(d.annotations) THEN Raise(d, "ValueError")
        ELSE assign_annotations(Ok(d), ids, 1)

\* The statement after one that left r: skipped when that one raised.
Then(r, statement(_)) == IF r.err # "" THEN r ELSE statement(r.d)

reindex_dataset(d) ==
    Then(Then(Then(Then(reindex_annotations(d, <<>>),
                        LAMBDA a : reindex_images(a, <<>>)),
                   LAMBDA b : reindex_categories(b, <<>>)),
              LAMBDA c : reindex_licenses(c, <<>>)),
         LAMBDA e : Ok(clear_cached_ids(e)))

(***************************************************************************)
(* trim and clean                                                          *)
(***************************************************************************)
trim_licenses(d) ==
    [d EXCEPT !.licenses = SelectSeq(@, LAMBDA license :
        \E k \in DOMAIN d.images : d.images[k].license = license.id)]

trim_categories(d) ==
    IF ~no_categories(d) /\ isinstances(d.annotations, Categorized)
    THEN [d EXCEPT !.categories = SelectSeq(@, LAMBDA category :
            \E k \in DOMAIN d.annotations : d.annotations[k].category_id = category.id)]
    ELSE d

trim_images(d) ==
    [d EXCEPT !.images = SelectSeq(@, LAMBDA image :
        /\ \E k \in DOMAIN d.annotations : d.annotations[k].image_id = image.id
        /\ image.license \in Range(license_ids(d)))]

trim_annotations(d) ==
    [d EXCEPT !.annotations = SelectSeq(@, LAMBDA annotation :
        annotation.image_id \in Range(image_ids(d)))]

\* The four trims in the opposite order: licenses first, annotations last.
trim_dataset_licenses_first(d) ==
    trim_annotations(trim_images(trim_categories(trim_licenses(d))))

trim_dataset(d) == trim_licenses(trim_categories(trim_images(trim_annotations(d))))

clean_dataset(d) == reindex_dataset(trim_dataset(d))

(***************************************************************************)
(* combine.  A step of combine works on two datasets, self and the deep    *)
(* copy new_coco of the argument: [self, new_coco, err].                   *)
(***************************************************************************)
\* The state of combine after a loop that left self as r.
Combined(r, new_coco) == [self |-> r.d, new_coco |-> new_coco, err |-> r.err]

\* new_coco reindexed as n, then the loop `take` that appends to self.
Taken(d, n, take(_, _)) ==
    IF n.err # "" THEN Combined(Raise(d, n.err), n.d)
    ELSE Combined(take(Ok(d), n.d), n.d)

\* The new ids a (with self) resolved, then new_coco.reindex_*(ids) and the
\* loop `take`.
Reindexed(a, new_coco, reindex(_, _), take(_, _)) ==
    IF a.err # "" THEN Combined(Raise(a.d, a.err), new_coco)
    ELSE Taken(a.d, reindex(new_coco, a.ids), take)

\* The step of combine after one that left c: skipped when that one raised.
ThenCombine(c, step(_, _)) == IF c.err # "" THEN c ELSE step(c.self, c.new_coco)

\* The first loop of __combine_licenses from the k-th license of new_coco on:
\* a = [d |-> self, err, ids |-> the new ids chosen so far].
RECURSIVE resolve_license_ids(_, _, _, _)
resolve_license_ids(a, new_coco, ignore_duplicates, k) ==
    IF k > Len(new_coco.licenses) \/ a.err # "" THEN a
    ELSE LET license == new_coco.licenses[k]
         IN  IF ~ignore_duplicates /\ license.name \in Range(license_names(a.d))
             THEN resolve_license_ids(
                      [a EXCEPT !.ids = Append(@,
                          a.d.licenses[get_license_by_name(a.d, license.name)].id)],
                      new_coco, ignore_duplicates, k + 1)
             ELSE LET g == get_new_license_id(a.d)
                  IN  resolve_license_ids(
                          [d |-> g.d, err |-> g.err,
                           ids |-> IF g.err # "" THEN a.ids ELSE Append(a.ids, g.id)],
                          new_coco, ignore_duplicates, k + 1)

\* The last loop of __combine_licenses from the k-th license of new_coco on.
RECURSIVE take_licenses(_, _, _)
take_licenses(r, licenses, k) ==
    IF k > Len(licenses) \/ r.err # "" THEN r
    ELSE take_licenses(
             IF licenses[k].id \notin Range(license_ids(r.d))
             THEN append_license(r.d, licenses[k]) ELSE r,
             licenses, k + 1)

combine_licenses(d, new_coco, ignore_duplicates) ==
    Reindexed(resolve_license_ids([d |-> d, err |-> "", ids |-> <<>>],
                                  new_coco, ignore_duplicates, 1),
              new_coco, reindex_licenses,
              LAMBDA r, n : take_licenses(r, n.licenses, 1))

\* any(name and supercategory equal) over self.categories
has_same_category(d, category) ==
    \E k \in DOMAIN d.categories :
        /\ category.name = d.categories[k].name
        /\ category.supercategory = d.categories[k].supercategory

RECURSIVE resolve_category_ids(_, _, _, _)
resolve_category_ids(a, new_coco, ignore_duplicates, k) ==
    IF k > Len(new_coco.categories) \/ a.err # "" THEN a
    ELSE LET category == new_coco.categories[k]
             current_category == get_category_by_name(a.d, category.name)
         IN  IF /\ ~ignore_duplicates /\ ~no_categories(a.d)
                /\ has_same_category(a.d, category)
                /\ current_category # 0
             THEN resolve_category_ids(
                      [a EXCEPT !.ids = Append(@, a.d.categories[current_category].id)],
                      new_coco, ignore_duplicates, k + 1)
             ELSE LET g == get_new_category_id(a.d)
                  IN  resolve_category_ids(
                          [d |-> g.d, err |-> g.err,
                           ids |-> IF g.err # "" THEN a.ids ELSE Append(a.ids, g.id)],
                          new_coco, ignore_duplicates, k + 1)

RECURSIVE take_categories(_, _, _)
take_categories(r, categories, k) ==
    IF k > Len(categories) \/ r.err # "" THEN r
    ELSE take_categories(
             IF categories[k].id \notin Range(category_ids(r.d))
             THEN append_category(r.d, categories[k]) ELSE r,
             categories, k + 1)

combine_categories(d, new_coco, ignore_duplicates) ==
    IF no_categories(new_coco) THEN Combined(Ok(d), new_coco)
    ELSE Reindexed(resolve_category_ids([d |-> d, err |-> "", ids |-> <<>>],
                                        new_coco, ignore_duplicates, 1),
                   new_coco, reindex_categories,
                   LAMBDA r, n : take_categories(r, n.categories, 1))

RECURSIVE resolve_image_ids(_, _, _, _)
resolve_image_ids(a, new_coco, ignore_duplicates, k) ==
    IF k > Len(new_coco.images) \/ a.err # "" THEN a
    ELSE LET image == new_coco.images[k]
         IN  IF ~ignore_duplicates /\ image.file_name \in Range(image_file_names(a.d))
             THEN resolve_image_ids(
                      [a EXCEPT !.ids = Append(@,
                          a.d.images[get_image_by_file_name(a.d, image.file_name)].id)],
                      new_coco, ignore_duplicates, k + 1)
             ELSE LET g == get_new_image_id(a.d)
                  IN  resolve_image_ids(
                          [d |-> g.d, err |-> g.err,
                           ids |-> IF g.err # "" THEN a.ids ELSE Append(a.ids, g.id)],
                          new_coco, ignore_duplicates, k + 1)

RECURSIVE take_images(_, _, _)
take_images(r, images, k) ==
    IF k > Len(images) \/ r.err # "" THEN r
    ELSE take_images(
             IF images[k].id \notin Range(image_ids(r.d))
             THEN append_image(r.d, images[k]) ELSE r,
             images, k + 1)

combine_images(d, new_coco, ignore_duplicates) ==
    Reindexed(resolve_image_ids([d |-> d, err |-> "", ids |-> <<>>],
                                new_coco, ignore_duplicates, 1),
              new_coco, reindex_images,
              LAMBDA r, n : take_images(r, n.images, 1))

\* [self.get_new_annotation_id() for _ in new_coco.annotations], from the k-th on.
RECURSIVE new_annotation_ids(_, _, _)
new_annotation_ids(a, n, k) ==
    IF k > n \/ a.err # "" THEN a
    ELSE LET g == get_new_annotation_id(a.d)
         IN  new_annotation_ids(
                 [d |-> g.d, err |-> g.err,
                  ids |-> IF g.err # "" THEN a.ids ELSE Append(a.ids, g.id)],
                 n, k + 1)

\* new_coco.reindex_annotations([...]) and self.extend_annotations(...).
combine_annotations(d, new_coco) ==
    Reindexed(new_annotation_ids([d |-> d, err |-> "", ids |-> <<>>],
                                 Len(new_coco.annotations), 1),
              new_coco, reindex_annotations,
              LAMBDA r, n : extend_annotations(r, n.annotations))

\* combine(new_coco, ignore_duplicates): new_coco is deep-copied, so the
\* caller's dataset is the argument and is not part of the result.
combine(d, new_coco, ignore_duplicates) ==
    ThenCombine(ThenCombine(ThenCombine(ThenCombine(
        combine_licenses(d, new_coco, ignore_duplicates),
        LAMBDA l, n : combine_categories(l, n, ignore_duplicates)),
        LAMBDA c, n : combine_images(c, n, ignore_duplicates)),
        LAMBDA i, n : combine_annotations(i, n)),
        LAMBDA a, n : Combined(Ok(clear_cached_ids(a)), n))

(***************************************************************************)
(* split(percentage, seed).  The percentage is num / den; `images` is the  *)
(* copy of self.images as random.shuffle left it, which for the seed is    *)
(* one of the orders of the list.                                          *)
(***************************************************************************)
\* The elements of a set of ids in the order a CPython set of small
\* non-negative ints is iterated in: ascending.
Ascending(S) ==
    [j \in 1..Cardinality(S) |-> CHOOSE x \in S : Cardinality({y \in S : y < x}) = j - 1]

\* get_licenses(images: List[Image])
get_licenses(d, images) ==
    IF \E k \in DOMAIN images : images[k] \notin Range(d.images)
    THEN [licenses |-> <<>>, err |-> "AttributeError"]
    ELSE IF \E k \in DOMAIN images : images[k].license \notin Range(license_ids(d))
    THEN [licenses |-> <<>>, err |-> "StopIteration"]
    ELSE LET license_ids_of == Ascending({images[k].license : k \in DOMAIN images})
         IN  [licenses |-> [j \in DOMAIN license_ids_of |->
                               d.licenses[get_license_by_id(d, license_ids_of[j])]],
              err |-> ""]

\* get_annotations(images: List[Image])
get_annotations_by_images(d, images) ==
    SelectSeq(d.annotations, LAMBDA a : a.image_id \in Range([k \in DOMAIN images |-> images[k].id]))

\* __get_annotations_category_ids(annotations)
get_annotations_category_ids(annotations) ==
    UNION {Range(get_annotation_category_ids(annotations[k])) : k \in DOMAIN annotations}

\* get_categories(images: List[Image])
get_categories_by_images(d, images) ==
    IF no_categories(d) THEN <<>>
    ELSE SelectSeq(d.categories,
                   LAMBDA c : c.id \in get_annotations_category_ids(
                                           get_annotations_by_images(d, images)))

\* COCO(info, licenses, images, annotations, categories) of one part of split.
part_of(d, subimages) ==
    LET l == get_licenses(d, subimages)
    IN  IF l.err # "" THEN Raise(d, l.err)
        ELSE Ok(COCO(l.licenses, TRUE, get_categories_by_images(d, subimages),
                     subimages, get_annotations_by_images(d, subimages)))

split(d, percentage, images) ==
    IF percentage.num > percentage.den \/ percentage.num < 0
    THEN [datasets |-> <<>>, err |-> "ValueError"]
    ELSE LET point == (Len(d.images) * percentage.num) \div percentage.den
             first == part_of(d, SubSeq(images, 1, point))
             second == part_of(d, SubSeq(images, point + 1, Len(images)))
         IN  IF first.err # "" THEN [datasets |-> <<>>, err |-> first.err]
             ELSE IF second.err # "" THEN [datasets |-> <<>>, err |-> second.err]
             ELSE [datasets |-> <<first.d, second.d>>, err |-> ""]

(***************************************************************************)
(* The queries as a caller sees them.  An argument carries its Python      *)
(* class in `type` (int, str, License, Category, Image, Annotation and the *)
(* lists List[Image], List[Annotation], List[Category]); a call returns    *)
(* None, one record or a list of records, or raises.                       *)
(***************************************************************************)
Input(type, value) == [type |-> type, value |-> value]

ReturnNone == [ret |-> "None", items |-> <<>>, err |-> ""]

ReturnOne(x) == [ret |-> "one", items |-> <<x>>, err |-> ""]

ReturnList(items) == [ret |-> "list", items |-> items, err |-> ""]

Raising(err) == [ret |-> "raise", items |-> <<>>, err |-> err]

\* next(x for x in s if Test(x)): the first one, StopIteration when there is none.
Next_(s, Test(_)) ==
    LET found == SelectSeq(s, Test)
    IN  IF found = <<>> THEN Raising("StopIteration") ELSE ReturnOne(Head(found))

\* A get_license that looks for the record without asking first whether a
\* record carries the key.
get_license_unchecked(d, input) ==
    IF input.type = "int"
    THEN Next_(d.licenses, LAMBDA license : license.id = input.value)
    ELSE Next_(d.licenses, LAMBDA license : license.name = input.value)

\* get_license(input)
get_license(d, input) ==
    CASE input.type = "int" ->
            IF input.value \notin Range(license_ids(d)) THEN ReturnNone
            ELSE Next_(d.licenses, LAMBDA license : license.id = input.value)
      [] input.type = "str" ->
            IF input.value \notin Range(license_names(d)) THEN ReturnNone
            ELSE Next_(d.licenses, LAMBDA license : license.name = input.value)
      [] input.type = "Image" ->
            IF input.value \notin Range(d.images) THEN ReturnNone
            ELSE Next_(d.licenses, LAMBDA license : license.id = input.value.license)
      [] OTHER -> Raising("TypeError")

\* get_category(input)
get_category(d, input) ==
    IF no_categories(d) THEN ReturnNone
    ELSE CASE input.type = "int" ->
                 IF input.value \notin Range(category_ids(d)) THEN ReturnNone
                 ELSE Next_(d.categories, LAMBDA category : category.id = input.value)
           [] input.type = "str" ->
                 IF input.value \notin Range(category_names(d)) THEN ReturnNone
                 ELSE Next_(d.categories, LAMBDA category : category.name = input.value)
           [] input.type = "Annotation" /\ CategorizedOrPanoptic(input.value) ->
                 IF input.value \notin Range(d.annotations) THEN ReturnNone
                 ELSE Next_(d.categories,
                            LAMBDA category :
                                category.id \in Range(get_annotation_category_ids(input.value)))
           [] OTHER -> Raising("TypeError")

\* get_image(input)
get_image(d, input) ==
    CASE input.type = "int" ->
            IF input.value \notin Range(image_ids(d)) THEN ReturnNone
            ELSE Next_(d.images, LAMBDA image : image.id = input.value)
      [] input.type = "str" ->
            IF input.value \notin Range(image_file_names(d)) THEN ReturnNone
            ELSE Next_(d.images, LAMBDA image : image.file_name = input.value)
      [] input.type = "Annotation" ->
            IF input.value \notin Range(d.annotations) THEN ReturnNone
            ELSE Next_(d.images, LAMBDA image : image.id = input.value.image_id)
      [] OTHER -> Raising("TypeError")

\* get_annotations(input)
get_annotations(d, input) ==
    CASE input.type = "int" ->
            ReturnList(SelectSeq(d.annotations, LAMBDA a : a.image_id = input.value))
      [] input.type = "str" ->
            IF \E k \in DOMAIN d.annotations :
                   get_image(d, Input("int", d.annotations[k].image_id)).ret = "None"
            THEN Raising("AttributeError")
            ELSE ReturnList(SelectSeq(d.annotations,
                     LAMBDA a : get_image(d, Input("int", a.image_id)).items[1].file_name
                                    = input.value))
      [] input.type = "Image" ->
            ReturnList(SelectSeq(d.annotations, LAMBDA a : a.image_id = input.value.id))
      [] input.type = "List[Image]" ->
            ReturnList(get_annotations_by_images(d, input.value))
      [] input.type \in {"List[Annotation]", "List[Category]"} /\ input.value = <<>> ->
            ReturnList(<<>>)
      [] OTHER -> Raising("TypeError")

\* get_categories(input)
get_categories(d, input) ==
    IF no_categories(d) THEN ReturnList(<<>>)
    ELSE CASE input.type = "str" ->
                 ReturnList(SelectSeq(d.categories,
                                      LAMBDA category : category.supercategory = input.value))
           [] input.type = "Image" ->
                 ReturnList(get_categories_by_images(d, <<input.value>>))
           [] input.type = "List[Image]" ->
                 ReturnList(get_categories_by_images(d, input.value))
           [] input.type = "List[Category]" /\ input.value = <<>> ->
                 ReturnList(<<>>)
           [] input.type = "List[Annotation]" /\ isinstances(input.value, CategorizedOrPanoptic) ->
                 ReturnList(SelectSeq(d.categories,
                     LAMBDA category : category.id \in get_annotations_category_ids(input.value)))
           [] OTHER -> Raising("TypeError")

\* get_images(category: Category), once the categories are known to be there.
images_of_category(d, category) ==
    SelectSeq(d.images,
              LAMBDA image : \E k \in DOMAIN get_categories(d, Input("Image", image)).items :
                  get_categories(d, Input("Image", image)).items[k].id = category.id)

RECURSIVE images_of_categories(_, _)
images_of_categories(d, categories) ==
    IF categories = <<>> THEN <<>>
    ELSE images_of_category(d, Head(categories)) \o images_of_categories(d, Tail(categories))

\* get_images(input)
get_images(d, input) ==
    CASE input.type = "int" ->
            ReturnList(SelectSeq(d.images, LAMBDA image : image.license = input.value))
      [] input.type = "str" ->
            IF d.images # <<>> /\ get_license(d, input).ret = "None"
            THEN Raising("AttributeError")
            ELSE ReturnList(SelectSeq(d.images,
                     LAMBDA image : image.license = get_license(d, input).items[1].id))
      [] input.type = "License" ->
            ReturnList(SelectSeq(d.images, LAMBDA image : image.license = input.value.id))
      [] input.type = "Category" /\ ~no_categories(d) ->
            ReturnList(images_of_category(d, input.value))
      [] input.type = "List[Annotation]"
         \/ (input.type \in {"List[Image]", "List[Category]"} /\ input.value = <<>>) ->
            ReturnList(SelectSeq(d.images,
                LAMBDA image : \E k \in DOMAIN input.value : input.value[k].image_id = image.id))
      [] input.type = "List[Category]" /\ ~no_categories(d) ->
            ReturnList(images_of_categories(d, input.value))
      [] OTHER -> Raising("TypeError")

\* get_annotations_by_category(input)
get_annotations_by_category_input(d, input) ==
    IF no_categories(d) \/ ~isinstances(d.annotations, CategorizedOrPanoptic)
    THEN ReturnList(<<>>)
    ELSE CASE input.type = "int" ->
                 IF \E k \in DOMAIN d.annotations : ~Categorized(d.annotations[k])
                 THEN Raising("AttributeError")
                 ELSE ReturnList(SelectSeq(d.annotations,
                                           LAMBDA a : a.category_id = input.value))
           [] input.type = "str" ->
                 IF \E k \in DOMAIN d.annotations :
                        \/ ~Categorized(d.annotations[k])
                        \/ get_category(d, Input("int", d.annotations[k].category_id)).ret = "None"
                 THEN Raising("AttributeError")
                 ELSE ReturnList(SelectSeq(d.annotations,
                          LAMBDA a : get_category(d, Input("int", a.category_id)).items[1].name
                                         = input.value))
           [] input.type = "Category" ->
                 ReturnList(SelectSeq(d.annotations,
                     LAMBDA a : input.value.id \in Range(get_annotation_category_ids(a))))
           [] input.type = "List[Category]"
              \/ (input.type \in {"List[Image]", "List[Annotation]"} /\ input.value = <<>>) ->
                 ReturnList(SelectSeq(d.annotations,
                     LAMBDA a : \E k \in DOMAIN input.value :
                         input.value[k].id \in Range(get_annotation_category_ids(a))))
           [] OTHER -> Raising("TypeError")

\* get_annotations_by_supercategory(supercategory)
get_annotations_by_supercategory(d, input) ==
    IF input.type # "str" THEN Raising("TypeError")
    ELSE IF no_categories(d) \/ ~isinstances(d.annotations, CategorizedOrPanoptic)
    THEN ReturnList(<<>>)
    ELSE ReturnList(SelectSeq(d.annotations,
             LAMBDA a : \E k \in DOMAIN get_categories(d, input).items :
                 get_categories(d, input).items[k].id \in Range(get_annotation_category_ids(a))))

\* get_annotation(id)
get_annotation_or_raise(d, input) ==
    IF input.type = "int" /\ input.value \in Range(annotation_ids(d))
    THEN ReturnOne(d.annotations[get_annotation(d, input.value)])
    ELSE Raising("TypeError")

(***************************************************************************)
(* Constructed datasets and call arguments.                                *)
(***************************************************************************)
Ids == 0..MaxId

\* Ids a caller passes as new ids: the ids in use and the next one.
NewIds == 0..(MaxId + 1)

\* The ids of the records of the datasets that vary all four collections.
FewIds == 0..(MaxId - 1)

\* Lists of at most n records built by Make from the values V, ids distinct.
RecordLists(V, Make(_), n) ==
    {[k \in DOMAIN s |-> Make(s[k])] : s \in {t \in SeqsUpTo(V, n) :
        Distinct([k \in DOMAIN t |-> Make(t[k]).id])}}

LicenseLists(ids, names, n) ==
    RecordLists(ids \X names, LAMBDA v : License(v[1], v[2]), n)

ImageLists(ids, file_names, licenses, n) ==
    RecordLists(ids \X file_names \X licenses, LAMBDA v : Image(v[1], v[2], v[3]), n)

CategoryLists(ids, names, supercategories, n) ==
    RecordLists(ids \X names \X supercategories,
                LAMBDA v : Category(v[1], v[2], v[3]), n)

\* Lists of at most n annotations of the pool, the ids of the Indexed ones distinct.
AnnotationLists(pool, n) ==
    {s \in SeqsUpTo(pool, n) :
        \A j, k \in DOMAIN s :
            (j # k /\ Indexed(s[j]) /\ Indexed(s[k])) => s[j].id # s[k].id}

\* The four collections of two datasets are equal (dataclass equality: the
\* cached ids are no fields).
Same(d, e) ==
    /\ d.licenses = e.licenses
    /\ d.has_categories = e.has_categories
    /\ d.categories = e.categories
    /\ d.images = e.images
    /\ d.annotations = e.annotations

\* A call: the method, its arguments, and the exception it raised ("" for none).
Call(op) == [op |-> op, i |-> 0, id |-> None, ids |-> <<>>,
             flag |-> FALSE, flag2 |-> FALSE, err |-> ""]

Last == calls[Len(calls)]

Called(op) == calls # <<>> /\ Last.op = op

\* The call c is made on self and ends as r.
Made(c, r) ==
    /\ budget > 0
    /\ budget' = budget - 1
    /\ self' = r.d
    /\ before' = self
    /\ calls' = Append(calls, [c EXCEPT !.err = r.err])
    /\ UNCHANGED <<other, start>>

\* The call c, which returns no datasets, is made on self and ends as r.
Do(c, r) == Made(c, r) /\ UNCHANGED <<split_datasets, result>>

\* The query op(input) is made on self and ends as r; the argument is kept
\* with what it returned.
Asked(op, input, r) ==
    /\ Made(Call(op), [d |-> self, err |-> r.err])
    /\ result' = [input |-> input, ret |-> r.ret, items |-> r.items]
    /\ UNCHANGED split_datasets

InitWith(datasets, others, n) ==
    /\ budget = n
    /\ self \in datasets
    /\ other \in others
    /\ start = self
    /\ before = self
    /\ calls = <<>>
    /\ split_datasets = <<>>
    /\ result = [input |-> Input("None", None), ret |-> "None", items |-> <<>>]

Empty == COCO(<<>>, FALSE, <<>>, <<>>, <<>>)

(***************************************************************************)
(* The calls.                                                              *)
(***************************************************************************)
GetNewLicenseId == Do(Call("get_new_license_id"), get_new_license_id(self))

GetNewImageId == Do(Call("get_new_image_id"), get_new_image_id(self))

GetNewCategoryId == Do(Call("get_new_category_id"), get_new_category_id(self))

GetNewAnnotationId == Do(Call("get_new_annotation_id"), get_new_annotation_id(self))

AppendLicense ==
    \E id \in Ids :
        Do([Call("append_license") EXCEPT !.id = id],
           append_license(self, License(id, "a")))

AppendImage ==
    \E id \in Ids, license \in Ids :
        Do([Call("append_image") EXCEPT !.id = id],
           append_image(self, Image(id, "x", license)))

\* remove_license(license, remove_images, remove_annotations) with a stored license.
RemoveLicense ==
    \E i \in DOMAIN self.licenses, rm_images, rm_annotations \in BOOLEAN :
        Do([Call("remove_license") EXCEPT !.i = i, !.id = self.licenses[i].id,
                                          !.flag = rm_images, !.flag2 = rm_annotations],
           Ok(remove_license(self, self.licenses[i], rm_images, rm_annotations)))

RemoveImage ==
    \E i \in DOMAIN self.images, rm_annotations \in BOOLEAN :
        Do([Call("remove_image") EXCEPT !.i = i, !.id = self.images[i].id,
                                        !.flag = rm_annotations],
           Ok(remove_image(self, self.images[i], rm_annotations)))

ReindexLicense ==
    \E i \in DOMAIN self.licenses, new_id \in NewIds \cup {None} :
        Do([Call("reindex_license") EXCEPT !.i = i, !.id = new_id],
           reindex_license(self, i, new_id))

ReindexLicenses ==
    \E new_ids \in SeqsUpTo(NewIds, MaxLen) :
        Do([Call("reindex_licenses") EXCEPT !.ids = new_ids],
           reindex_licenses(self, new_ids))

ReindexImage ==
    \E i \in DOMAIN self.images, new_id \in NewIds \cup {None} :
        Do([Call("reindex_image") EXCEPT !.i = i, !.id = new_id],
           reindex_image(self, i, new_id))

ReindexImages ==
    \E new_ids \in SeqsUpTo(NewIds, MaxLen) :
        Do([Call("reindex_images") EXCEPT !.ids = new_ids],
           reindex_images(self, new_ids))

(***************************************************************************)
(* Spec: licenses and the images that reference them.  A dataset is        *)
(* constructed with up to MaxLen licenses and images, every image license  *)
(* in Ids (so possibly dangling), and at most one caption annotation.      *)
(***************************************************************************)
LicenseDatasets(ids, n) ==
    {COCO(licenses, FALSE, <<>>, images, annotations) :
        licenses \in LicenseLists(ids, {"a"}, n),
        images \in ImageLists(ids, {"x"}, ids, n),
        annotations \in {<<>>} \cup {<<ImageCaptioningAnnotation(0, i)>> : i \in ids}}

Init == InitWith(LicenseDatasets(Ids, MaxLen), {Empty}, MaxCalls)

Next ==
    \/ GetNewLicenseId
    \/ GetNewImageId
    \/ AppendLicense
    \/ AppendImage
    \/ RemoveLicense
    \/ RemoveImage
    \/ ReindexLicense
    \/ ReindexLicenses
    \/ ReindexImage
    \/ ReindexImages

Spec == Init /\ [][Next]_vars

(***************************************************************************)
(* Properties of Spec.                                                     *)
(***************************************************************************)
UniqueIds(d) ==
    /\ Distinct(license_ids(d))
    /\ Distinct(category_ids(d))
    /\ Distinct(image_ids(d))
    /\ Distinct(annotation_ids(d))

\* Every image's license is the id of a license of d.
LicensesExist(d) ==
    \A k \in DOMAIN d.images : d.images[k].license \in Range(license_ids(d))

\* C1: starting from a dataset with unique ids, after any sequence of append,
\* remove and reindex calls no two records of a collection share an id.
C1_IdsStayUnique == UniqueIds(start) => UniqueIds(self)

\* C2: reindex_licenses(new_ids) with pairwise distinct new_ids of the right
\* length, on unique license ids and images that all reference existing
\* licenses, leaves the i-th license with new_ids[i] and every image that
\* referenced the i-th license referencing new_ids[i].
C2_ReindexLicensesKeepsImages ==
    ( /\ Called("reindex_licenses")
      /\ Last.ids # <<>> /\ Distinct(Last.ids)
      /\ Len(Last.ids) = Len(before.licenses)
      /\ Distinct(license_ids(before))
      /\ LicensesExist(before) )
    => /\ Last.err = ""
       /\ \A i \in DOMAIN before.licenses :
            /\ self.licenses[i].id = Last.ids[i]
            /\ \A k \in DOMAIN before.images :
                 before.images[k].license = before.licenses[i].id
                    => self.images[k].license = Last.ids[i]

\* C10: reindex_license / reindex_image with an explicit new_id that another
\* record of the collection holds leaves only the target record with new_id.
C10_OccupantDisplaced ==
    /\ ( /\ Called("reindex_license") /\ Last.id # None
         /\ \E j \in DOMAIN before.licenses :
               j # Last.i /\ before.licenses[j].id = Last.id )
       => \A j \in DOMAIN self.licenses : self.licenses[j].id = Last.id <=> j = Last.i
    /\ ( /\ Called("reindex_image") /\ Last.id # None
         /\ \E j \in DOMAIN before.images :
               j # Last.i /\ before.images[j].id = Last.id )
       => \A j \in DOMAIN self.images : self.images[j].id = Last.id <=> j = Last.i

\* C11: no id is at the same time in a collection's reservation buffer and
\* among the collection's committed ids.
C11_BufferHoldsNoCommittedId ==
    /\ Range(self.cached_license_ids) \cap Range(license_ids(self)) = {}
    /\ Range(self.cached_image_ids) \cap Range(image_ids(self)) = {}
    /\ Range(self.cached_category_ids) \cap Range(category_ids(self)) = {}
    /\ Range(self.cached_annotation_ids) \cap Range(annotation_ids(self)) = {}

\* C35: reindexing creates no reference.  An image whose license is no
\* license id before reindex_licenses has a license that is no license id
\* after it, and an annotation whose image_id is no image id before
\* reindex_images has an image_id that is no image id after it, new ids
\* given or omitted.
C35_ReindexCreatesNoReference ==
    /\ Called("reindex_licenses")
       => \A k \in DOMAIN before.images :
              before.images[k].license \notin Range(license_ids(before))
              => self.images[k].license \notin Range(license_ids(self))
    /\ Called("reindex_images")
       => \A k \in DOMAIN before.annotations :
              before.annotations[k].image_id \notin Range(image_ids(before))
              => self.annotations[k].image_id \notin Range(image_ids(self))

(***************************************************************************)
(* SpecCategory: categories and the annotations that reference them.  A   *)
(* dataset is constructed with one license, one image, categories None or  *)
(* a list of up to MaxLen categories, and up to MaxLen annotations of the  *)
(* three capability classes: object detection (Indexed, Categorized),      *)
(* panoptic (neither; categories in its segments) and caption (Indexed).   *)
(***************************************************************************)
SegmentLists ==
    {[k \in DOMAIN s |-> SegmentInfo(k - 1, s[k])] : s \in SeqsUpTo(0..1, 2)}

AnnotationPool(ids) ==
    {ObjectDetectionAnnotation(id, 0, c) : id \in 0..1, c \in ids}
    \cup {ImageCaptioningAnnotation(id, 0) : id \in 0..1}
    \cup {PanopticSegmentationAnnotation(0, segments) : segments \in SegmentLists}

CategoryDatasets(ids, n) ==
    {COCO(<<License(0, "a")>>, TRUE, categories, <<Image(0, "x", 0)>>, annotations) :
        categories \in CategoryLists(ids, {"c"}, {"s"}, n),
        annotations \in AnnotationLists(AnnotationPool(ids), n)}
    \cup {COCO(<<License(0, "a")>>, FALSE, <<>>, <<Image(0, "x", 0)>>, annotations) :
        annotations \in AnnotationLists(AnnotationPool(ids), n)}

AppendCategory ==
    \E id \in Ids :
        Do([Call("append_category") EXCEPT !.id = id],
           append_category(self, Category(id, "c", "s")))

\* remove_category(category, remove_annotations) with a stored category.
RemoveCategory ==
    \E i \in DOMAIN self.categories, rm_annotations \in BOOLEAN :
        Do([Call("remove_category") EXCEPT !.i = i, !.id = self.categories[i].id,
                                           !.flag = rm_annotations],
           Ok(remove_category(self, self.categories[i], rm_annotations)))

ReindexCategory ==
    \E i \in DOMAIN self.categories, new_id \in NewIds \cup {None} :
        Do([Call("reindex_category") EXCEPT !.i = i, !.id = new_id],
           reindex_category(self, i, new_id))

ReindexCategories ==
    \E new_ids \in SeqsUpTo(NewIds, MaxLen) :
        Do([Call("reindex_categories") EXCEPT !.ids = new_ids],
           reindex_categories(self, new_ids))

InitCategory == InitWith(CategoryDatasets(Ids, MaxLen), {Empty}, MaxCalls)

NextCategory ==
    \/ GetNewCategoryId
    \/ AppendCategory
    \/ RemoveCategory
    \/ ReindexCategory
    \/ ReindexCategories

SpecCategory == InitCategory /\ [][NextCategory]_vars

\* The annotation references category id c, itself or in a segment.
RefersToCategory(a, c) ==
    \/ Categorized(a) /\ a.category_id = c
    \/ IsPanoptic(a) /\ \E k \in DOMAIN a.segments_info : a.segments_info[k].category_id = c

\* C3: remove_category(category) with cascade leaves no annotation whose
\* category_id, or one of whose segments' category ids, is the removed id.
C3_RemoveCategoryCascades ==
    (Called("remove_category") /\ Last.flag)
    => \A k \in DOMAIN self.annotations : ~RefersToCategory(self.annotations[k], Last.id)

\* C15: reindex_category(category, new_id) on a dataset with categories
\* rewrites to the category's new id the category_id of every annotation, and
\* of every segment of a panoptic annotation, that equalled the category's old
\* id, whatever other annotation variants the dataset holds.
C15_ReindexCategoryRewritesReferences ==
    (Called("reindex_category") /\ Last.err = "" /\ before.categories # <<>>)
    => LET old_id == before.categories[Last.i].id
           new_id == self.categories[Last.i].id
       IN  /\ Len(self.annotations) = Len(before.annotations)
           /\ \A k \in DOMAIN before.annotations :
                LET old == before.annotations[k]
                    new == self.annotations[k]
                IN  /\ (Categorized(old) /\ old.category_id = old_id)
                       => (Categorized(new) /\ new.category_id = new_id)
                    /\ IsPanoptic(old)
                       => /\ IsPanoptic(new)
                          /\ Len(new.segments_info) = Len(old.segments_info)
                          /\ \A j \in DOMAIN old.segments_info :
                               old.segments_info[j].category_id = old_id
                               => new.segments_info[j].category_id = new_id

\* The last call, a plural reindex of the collection `records` was before
\* it, got a non-empty list of another length than the collection.
ArityMismatch(op, records) ==
    Called(op) /\ Last.ids # <<>> /\ Len(Last.ids) # Len(records)

\* C27: a plural reindex given a non-empty list whose length differs from the
\* size of the collection raises ValueError and leaves ids, foreign keys and
\* reservation buffers as they were, for each of the four collections, the
\* categories also when they are empty or None.
C27_ArityMismatchRaises ==
    (\/ ArityMismatch("reindex_licenses", before.licenses)
     \/ ArityMismatch("reindex_categories", before.categories)
     \/ ArityMismatch("reindex_images", before.images)
     \/ ArityMismatch("reindex_annotations", before.annotations))
    => (Last.err = "ValueError" /\ self = before)

(***************************************************************************)
(* SpecTrim: trim, reindex_dataset and clean on datasets that vary all     *)
(* four collections, with ids and references in FewIds, so that            *)
(* references may dangle.                                                  *)
(***************************************************************************)
TrimAnnotationPool(ids) ==
    {ObjectDetectionAnnotation(0, i, c) : i \in ids, c \in ids}
    \cup {ImageCaptioningAnnotation(1, i) : i \in ids}
    \cup {PanopticSegmentationAnnotation(i, <<SegmentInfo(0, c)>>) : i \in ids, c \in ids}

\* At most one license and one category, up to n images and annotations.
TrimDatasets(ids, n) ==
    {COCO(licenses, TRUE, categories, images, annotations) :
        licenses \in LicenseLists(ids, {"a"}, 1),
        categories \in CategoryLists(ids, {"c"}, {"s"}, 1) \ {<<>>},
        images \in ImageLists(ids, {"x"}, ids, n),
        annotations \in AnnotationLists(TrimAnnotationPool(ids), n)}
    \cup {COCO(licenses, FALSE, <<>>, images, annotations) :
        licenses \in LicenseLists(ids, {"a"}, 1),
        images \in ImageLists(ids, {"x"}, ids, n),
        annotations \in AnnotationLists(TrimAnnotationPool(ids), n)}

TrimLicenses == Do(Call("trim_licenses"), Ok(trim_licenses(self)))

TrimCategories == Do(Call("trim_categories"), Ok(trim_categories(self)))

TrimImages == Do(Call("trim_images"), Ok(trim_images(self)))

TrimAnnotations == Do(Call("trim_annotations"), Ok(trim_annotations(self)))

TrimDataset == Do(Call("trim_dataset"), Ok(trim_dataset(self)))

ReindexDataset == Do(Call("reindex_dataset"), reindex_dataset(self))

CleanDataset == Do(Call("clean_dataset"), clean_dataset(self))

InitTrim == InitWith(TrimDatasets(FewIds, MaxLen), {Empty}, MaxCalls)

NextTrim ==
    \/ TrimLicenses
    \/ TrimCategories
    \/ TrimImages
    \/ TrimAnnotations
    \/ TrimDataset
    \/ ReindexDataset
    \/ CleanDataset

SpecTrim == InitTrim /\ [][NextTrim]_vars

\* Every annotation's image_id is the id of an image of d.
ImagesExist(d) ==
    \A k \in DOMAIN d.annotations : d.annotations[k].image_id \in Range(image_ids(d))

\* Every category id an annotation holds, itself or in a segment, is the id of
\* a category of d.
CategoriesExist(d) ==
    \A k \in DOMAIN d.annotations :
        LET a == d.annotations[k]
        IN  (Categorized(a) \/ IsPanoptic(a))
            => Range(get_annotation_category_ids(a)) \subseteq Range(category_ids(d))

\* C4: trim_dataset is idempotent: trimming the trimmed dataset changes nothing.
C4_TrimIdempotent ==
    Called("trim_dataset") => Same(trim_dataset(self), self)

\* C5: after trim_dataset and after clean_dataset every annotation's image_id
\* is the id of an image still in the dataset.
C5_TrimLeavesNoDanglingImage ==
    (Called("trim_dataset") \/ Called("clean_dataset")) => ImagesExist(self)

\* C6: after trim_dataset and after clean_dataset on a dataset with categories
\* present, every category id an annotation holds is the id of a category
\* still in the dataset.  Stated here for the datasets in which that was so
\* before the call.
C6_TrimLeavesNoDanglingCategory ==
    ( /\ Called("trim_dataset") \/ Called("clean_dataset")
      /\ ~no_categories(before)
      /\ CategoriesExist(before) )
    => CategoriesExist(self)

\* The positions of the records of d that carry the id.
Carriers(records, id) == {k \in DOMAIN records : records[k].id = id}

\* The category ids of the k-th annotation of d, one per segment for a
\* panoptic annotation, none for a caption.
CategoryKeys(d, k) ==
    IF CategorizedOrPanoptic(d.annotations[k])
    THEN get_annotation_category_ids(d.annotations[k])
    ELSE <<>>

\* Every foreign key of self points at the records it pointed at before the
\* last call.
ForeignKeysKept ==
    /\ \A k \in DOMAIN before.images :
         Carriers(self.licenses, self.images[k].license)
             = Carriers(before.licenses, before.images[k].license)
    /\ \A k \in DOMAIN before.annotations :
         /\ Carriers(self.images, self.annotations[k].image_id)
                = Carriers(before.images, before.annotations[k].image_id)
         /\ Len(CategoryKeys(self, k)) = Len(CategoryKeys(before, k))
         /\ \A j \in DOMAIN CategoryKeys(before, k) :
              Carriers(self.categories, CategoryKeys(self, k)[j])
                  = Carriers(before.categories, CategoryKeys(before, k)[j])

\* C28: after reindex_dataset() on a dataset with unique ids and no dangling
\* reference the licenses, categories and images carry the ids 0..n-1 in
\* collection order, every Indexed annotation its position in the list,
\* every foreign key points at the record it pointed at, and the four
\* reservation buffers are empty.
C28_ReindexDatasetIsDense ==
    (/\ Called("reindex_dataset")
     /\ UniqueIds(before) /\ LicensesExist(before)
     /\ ImagesExist(before) /\ CategoriesExist(before))
    => /\ Last.err = ""
       /\ license_ids(self) = RangeIds(before.licenses)
       /\ category_ids(self) = RangeIds(before.categories)
       /\ image_ids(self) = RangeIds(before.images)
       /\ Len(self.annotations) = Len(before.annotations)
       /\ \A k \in DOMAIN self.annotations :
            Indexed(self.annotations[k]) => self.annotations[k].id = k - 1
       /\ ForeignKeysKept
       /\ self.cached_license_ids = <<>> /\ self.cached_category_ids = <<>>
       /\ self.cached_image_ids = <<>> /\ self.cached_annotation_ids = <<>>

(***************************************************************************)
(* SpecTrimDataset: one trim_dataset() on a dataset with up to MaxLen       *)
(* licenses, categories, images and annotations, the licenses, categories  *)
(* and images listed by ascending id, an image's license 0 or its own id;  *)
(* an image's license, an annotation's image and category may dangle, and  *)
(* categories may be None.                                                 *)
(***************************************************************************)
GoingUp(records) == \A j, k \in DOMAIN records : j < k => records[j].id < records[k].id

TrimDatasetPool(ids) ==
    {ObjectDetectionAnnotation(0, i, c) : i \in ids, c \in ids}
    \cup {ImageCaptioningAnnotation(1, i) : i \in ids}
    \cup {PanopticSegmentationAnnotation(i, <<SegmentInfo(0, 0)>>) : i \in ids}

\* Object detection annotations come first in the lists, then captions, then
\* panoptic annotations by ascending image id: the trims read no position.
ListRank(a) ==
    CASE a.kind = "object_detection" -> 0
      [] a.kind = "image_captioning" -> 1
      [] OTHER -> 2 + a.image_id

TrimDatasetFamily(ids, n) ==
    {COCO(licenses, categories.has, categories.list, images, annotations) :
        licenses \in {s \in LicenseLists(ids, {"a"}, n) : GoingUp(s)},
        categories \in {[has |-> FALSE, list |-> <<>>]}
                       \cup {[has |-> TRUE, list |-> s] :
                                s \in {t \in CategoryLists(ids, {"c"}, {"s"}, n) : GoingUp(t)}},
        images \in {s \in ImageLists(ids, {"x"}, ids, n) :
                        GoingUp(s) /\ \A k \in DOMAIN s : s[k].license \in {0, s[k].id}},
        annotations \in {s \in AnnotationLists(TrimDatasetPool(ids), n) :
                            \A j, k \in DOMAIN s : j < k => ListRank(s[j]) <= ListRank(s[k])}}

InitTrimDataset == InitWith(TrimDatasetFamily(FewIds, MaxLen), {Empty}, 1)

NextTrimDataset == TrimDataset

SpecTrimDataset == InitTrimDataset /\ [][NextTrimDataset]_vars

\* C34: after trim_dataset() every remaining license is the license of a
\* remaining image, every remaining image has an annotation and a license
\* that is the id of a remaining license, and, when every annotation is
\* category-linked, every remaining category is the category of an
\* annotation.
C34_TrimLeavesOnlyUsedRecords ==
    Called("trim_dataset")
    => /\ Last.err = ""
       /\ \A l \in DOMAIN self.licenses :
            \E i \in DOMAIN self.images : self.images[i].license = self.licenses[l].id
       /\ \A i \in DOMAIN self.images :
            /\ \E a \in DOMAIN self.annotations :
                   self.annotations[a].image_id = self.images[i].id
            /\ self.images[i].license \in Range(license_ids(self))
       /\ isinstances(self.annotations, Categorized)
          => \A c \in DOMAIN self.categories :
                 \E a \in DOMAIN self.annotations :
                     self.annotations[a].category_id = self.categories[c].id

\* trim_dataset kept one of two licenses and one of two images, and removed
\* a category, on a dataset whose remaining annotations are category-linked.
C34_TrimmedEachCollection ==
    /\ Called("trim_dataset")
    /\ Len(before.licenses) = 2 /\ Len(self.licenses) = 1
    /\ Len(before.images) = 2 /\ Len(self.images) = 1
    /\ Len(self.categories) < Len(before.categories)
    /\ self.annotations # <<>>
    /\ isinstances(self.annotations, Categorized)

(***************************************************************************)
(* SpecCombine: self.combine(other, ignore_duplicates).  self holds at     *)
(* most one license and one image, other up to MaxLen of each with         *)
(* distinct file names; names overlap so that duplicates are found.        *)
(***************************************************************************)
CombineAnnotations(ids) ==
    {<<>>} \cup {<<ImageCaptioningAnnotation(0, i)>> : i \in ids}

CombineCategories == {<<>>, <<Category(0, "c", "s")>>}

SelfDatasets(ids) ==
    {COCO(licenses, categories # <<>>, categories, images, annotations) :
        licenses \in LicenseLists(ids, {"b"}, 1),
        categories \in CombineCategories,
        images \in ImageLists(ids, {"x"}, {0}, 1),
        annotations \in {<<>>, <<ImageCaptioningAnnotation(0, 0)>>}}

OtherDatasets(ids, n) ==
    {COCO(licenses, categories # <<>>, categories, images, annotations) :
        licenses \in LicenseLists(ids, {"a", "b"}, n),
        categories \in CombineCategories,
        images \in {s \in ImageLists(ids, {"x", "y"}, ids, n) :
                        Distinct([k \in DOMAIN s |-> s[k].file_name])},
        annotations \in CombineAnnotations(ids)}

Combine ==
    \E ignore_duplicates \in BOOLEAN :
        LET r == combine(self, other, ignore_duplicates)
        IN  Do([Call("combine") EXCEPT !.flag = ignore_duplicates],
               [d |-> r.self, err |-> r.err])

InitCombine == InitWith(SelfDatasets(FewIds), OtherDatasets(FewIds, MaxLen), MaxCalls)

NextCombine == Combine

SpecCombine == InitCombine /\ [][NextCombine]_vars

\* The names of the licenses of d that carry the id.
NamesOf(d, id) == {d.licenses[k].name : k \in {j \in DOMAIN d.licenses : d.licenses[j].id = id}}

\* The records appended to a list since it was `old`.
Added(old, new) == {k \in DOMAIN new : k > Len(old)}

\* C7: after combine(other, ignore_duplicates=False) no license of other whose
\* name a license of self carried is added, and every image added from other
\* references a license named as the license it referenced in other.
C7_CombineFollowsLicenseNames ==
    (Called("combine") /\ ~Last.flag /\ Last.err = "")
    => /\ \A k \in Added(before.licenses, self.licenses) :
            self.licenses[k].name \notin Range(license_names(before))
       /\ \A k \in Added(before.images, self.images) :
            \A j \in DOMAIN other.images :
                other.images[j].file_name = self.images[k].file_name
                => NamesOf(other, other.images[j].license)
                       \subseteq NamesOf(self, self.images[k].license)

\* C8: combine(other, ignore_duplicates=True) yields len(self.images) +
\* len(other.images) images, and every annotation of other is in the result
\* with an image_id of an image that carries the file_name of the image it
\* pointed at in other.
C8_CombineKeepsTotals ==
    (Called("combine") /\ Last.flag)
    => /\ Last.err = ""
       /\ Len(self.images) = Len(before.images) + Len(other.images)
       /\ Len(self.annotations) = Len(before.annotations) + Len(other.annotations)
       /\ \A k \in DOMAIN other.annotations :
            \A j \in DOMAIN other.images :
                other.images[j].id = other.annotations[k].image_id
                => \E m \in DOMAIN self.images :
                     /\ self.images[m].id =
                            self.annotations[Len(before.annotations) + k].image_id
                     /\ self.images[m].file_name = other.images[j].file_name

\* The same as C8 for the calls that return.
CombineKeepsTotalsWhenItReturns ==
    (Called("combine") /\ Last.flag /\ Last.err = "")
    => /\ Len(self.images) = Len(before.images) + Len(other.images)
       /\ Len(self.annotations) = Len(before.annotations) + Len(other.annotations)
       /\ \A k \in DOMAIN other.annotations :
            \A j \in DOMAIN other.images :
                other.images[j].id = other.annotations[k].image_id
                => \E m \in DOMAIN self.images :
                     /\ self.images[m].id =
                            self.annotations[Len(before.annotations) + k].image_id
                     /\ self.images[m].file_name = other.images[j].file_name

\* The annotations of self are those before the call followed by one per
\* annotation of other; the Indexed ones that were added carry ids that no
\* annotation carried before the call and that are pairwise distinct.
AnnotationsTaken ==
    /\ Len(self.annotations) = Len(before.annotations) + Len(other.annotations)
    /\ \A k \in DOMAIN before.annotations : self.annotations[k] = before.annotations[k]
    /\ \A k \in Added(before.annotations, self.annotations) :
         Indexed(self.annotations[k])
         => /\ self.annotations[k].id \notin Range(annotation_ids(before))
            /\ \A j \in Added(before.annotations, self.annotations) :
                 (j # k /\ Indexed(self.annotations[j]))
                 => self.annotations[j].id # self.annotations[k].id

\* C18: combine(other, ignore_duplicates) never deduplicates annotations: after
\* it self holds its previous annotations plus one per annotation of other,
\* each Indexed one with an id freshly allocated in self.
C18_CombineTakesEveryAnnotation ==
    Called("combine") => (Last.err = "" /\ AnnotationsTaken)

\* The same as C18 for the calls that return.
CombineTakesEveryAnnotationWhenItReturns ==
    (Called("combine") /\ Last.err = "") => AnnotationsTaken

(***************************************************************************)
(* SpecRoundTrip: a plural reindex to a permutation of the collection's    *)
(* ids, then the same reindex back to the ids the dataset started with.    *)
(* References run over Ids, the records' ids over FewIds, so a reference   *)
(* may dangle.                                                             *)
(***************************************************************************)
RoundTripAnnotations(ids) ==
    {<<>>}
    \cup {<<ObjectDetectionAnnotation(0, i, c)>> : i \in ids, c \in ids}
    \cup {<<ObjectDetectionAnnotation(0, i, c), ImageCaptioningAnnotation(1, i)>> :
            i \in ids, c \in ids}

RoundTripDatasets(ids, references, n) ==
    {COCO(licenses, TRUE, categories, images, annotations) :
        licenses \in LicenseLists(ids, {"a"}, n),
        categories \in CategoryLists(ids, {"c"}, {"s"}, n),
        images \in ImageLists(ids, {"x"}, references, n),
        annotations \in RoundTripAnnotations(references)}

\* The orders of the ids of a collection.
PermutationsOf(ids) == {p \in [DOMAIN ids -> Range(ids)] : Range(p) = Range(ids)}

PermuteLicenses ==
    /\ calls = <<>>
    /\ \E new_ids \in PermutationsOf(license_ids(self)) :
          Do([Call("reindex_licenses") EXCEPT !.ids = new_ids],
             reindex_licenses(self, new_ids))

RestoreLicenses ==
    /\ Len(calls) = 1 /\ Called("reindex_licenses")
    /\ Do([Call("reindex_licenses") EXCEPT !.ids = license_ids(start)],
          reindex_licenses(self, license_ids(start)))

PermuteCategories ==
    /\ calls = <<>>
    /\ \E new_ids \in PermutationsOf(category_ids(self)) :
          Do([Call("reindex_categories") EXCEPT !.ids = new_ids],
             reindex_categories(self, new_ids))

RestoreCategories ==
    /\ Len(calls) = 1 /\ Called("reindex_categories")
    /\ Do([Call("reindex_categories") EXCEPT !.ids = category_ids(start)],
          reindex_categories(self, category_ids(start)))

PermuteImages ==
    /\ calls = <<>>
    /\ \E new_ids \in PermutationsOf(image_ids(self)) :
          Do([Call("reindex_images") EXCEPT !.ids = new_ids],
             reindex_images(self, new_ids))

RestoreImages ==
    /\ Len(calls) = 1 /\ Called("reindex_images")
    /\ Do([Call("reindex_images") EXCEPT !.ids = image_ids(start)],
          reindex_images(self, image_ids(start)))

PermuteAnnotations ==
    /\ calls = <<>>
    /\ \E new_ids \in PermutationsOf(annotation_ids(self)) :
          Do([Call("reindex_annotations") EXCEPT !.ids = new_ids],
             reindex_annotations(self, new_ids))

RestoreAnnotations ==
    /\ Len(calls) = 1 /\ Called("reindex_annotations")
    /\ Do([Call("reindex_annotations") EXCEPT !.ids = annotation_ids(start)],
          reindex_annotations(self, annotation_ids(start)))

InitRoundTrip == InitWith(RoundTripDatasets(FewIds, Ids, MaxLen), {Empty}, MaxTripCalls)

NextRoundTrip ==
    \/ PermuteLicenses
    \/ RestoreLicenses
    \/ PermuteCategories
    \/ RestoreCategories
    \/ PermuteImages
    \/ RestoreImages
    \/ PermuteAnnotations
    \/ RestoreAnnotations

SpecRoundTrip == InitRoundTrip /\ [][NextRoundTrip]_vars

\* C9: a plural reindex to a permutation of the current ids and then back to
\* the original ids yields a dataset equal to the one before the two calls,
\* foreign keys included, dangling ones too.
C9_ReindexRoundTrip ==
    Len(calls) = MaxTripCalls => Same(self, start)

(***************************************************************************)
(* SpecAllocator: up to MaxNewIds consecutive get_new_*_id calls, nothing  *)
(* committed in between.  The licenses and images carry one list of ids,   *)
(* the categories (when not None) and annotations another.                 *)
(***************************************************************************)
IdLists(ids, n) == {s \in SeqsUpTo(ids, n) : Distinct(s)}

AllocatorDatasets(ids, n) ==
    {COCO([k \in DOMAIN s |-> License(s[k], "a")],
          has_categories,
          IF has_categories THEN [k \in DOMAIN t |-> Category(t[k], "c", "s")] ELSE <<>>,
          [k \in DOMAIN s |-> Image(s[k], "x", 0)],
          [k \in DOMAIN t |-> ImageCaptioningAnnotation(t[k], 0)]) :
        s \in IdLists(ids, n), t \in IdLists(ids, n), has_categories \in BOOLEAN}

\* The call get_new_*_id() named op, made on self, with the id it returns.
GetNewId(op, r) == Do([Call(op) EXCEPT !.id = r.id], r)

NewLicenseId == GetNewId("get_new_license_id", get_new_license_id(self))

NewCategoryId == GetNewId("get_new_category_id", get_new_category_id(self))

NewImageId == GetNewId("get_new_image_id", get_new_image_id(self))

NewAnnotationId == GetNewId("get_new_annotation_id", get_new_annotation_id(self))

InitAllocator == InitWith(AllocatorDatasets(Ids, MaxLen), {Empty}, MaxNewIds)

NextAllocator ==
    \/ NewLicenseId
    \/ NewCategoryId
    \/ NewImageId
    \/ NewAnnotationId

SpecAllocator == InitAllocator /\ [][NextAllocator]_vars

\* The committed ids and the reservation buffer get_new_*_id() named op reads.
CommittedIds(d, op) ==
    CASE op = "get_new_license_id" -> license_ids(d)
      [] op = "get_new_category_id" -> category_ids(d)
      [] op = "get_new_image_id" -> image_ids(d)
      [] op = "get_new_annotation_id" -> annotation_ids(d)

ReservedIds(d, op) ==
    CASE op = "get_new_license_id" -> d.cached_license_ids
      [] op = "get_new_category_id" -> d.cached_category_ids
      [] op = "get_new_image_id" -> d.cached_image_ids
      [] op = "get_new_annotation_id" -> d.cached_annotation_ids

NumberedLists(V, Make(_, _), n) ==
    {[k \in DOMAIN s |-> Make(k - 1, s[k])] : s \in SeqsUpTo(V, n)}

RemoveDatasets(ids, n) ==
    {COCO(licenses, FALSE, <<>>, images, annotations) :
        licenses \in NumberedLists({"a"}, License, n),
        images \in NumberedLists(ids, LAMBDA id, license : Image(id, "x", license), n),
        annotations \in NumberedLists(ids, ImageCaptioningAnnotation, n)}

InitRemove == InitWith(RemoveDatasets(FewIds, MaxLen), {Empty}, MaxCalls)

NextRemove ==
    \/ RemoveImage
    \/ RemoveLicense

SpecRemove == InitRemove /\ [][NextRemove]_vars

\* C13: remove_image(image) with cascade, on an image of the dataset, leaves
\* no annotation whose image_id is the removed image's id.
C13_RemoveImageCascades ==
    (Called("remove_image") /\ Last.flag)
    => /\ self.images = At(before.images, DOMAIN before.images \ {Last.i})
       /\ \A k \in DOMAIN self.annotations : self.annotations[k].image_id # Last.id

\* An image with two annotations was removed with cascade, another image
\* stays.
C13_TwoAnnotationsRemoved ==
    /\ Called("remove_image") /\ Last.flag
    /\ Len(before.annotations) = Len(self.annotations) + 2
    /\ self.images # <<>>

\* The positions of the images of d that reference the license id.
ImagesOf(d, license_id) == {k \in DOMAIN d.images : d.images[k].license = license_id}

\* C14: remove_license(license) with both cascades removes the license, the
\* images whose license is its id and the annotations whose image_id is the id
\* of one of those images; every other image and annotation stays.
C14_RemoveLicenseCascades ==
    (Called("remove_license") /\ Last.flag /\ Last.flag2)
    => LET gone == ImagesOf(before, Last.id)
           gone_ids == {before.images[k].id : k \in gone}
       IN  /\ self.licenses = At(before.licenses, DOMAIN before.licenses \ {Last.i})
           /\ self.images = At(before.images, DOMAIN before.images \ gone)
           /\ self.annotations =
                  At(before.annotations,
                     {k \in DOMAIN before.annotations :
                          before.annotations[k].image_id \notin gone_ids})

\* A license was removed with both cascades: an image of it and that image's
\* annotation went, an image of another license and its annotation stay.
C14_ImagesOfOtherLicenseStay ==
    /\ Called("remove_license") /\ Last.flag /\ Last.flag2
    /\ Len(self.images) < Len(before.images)
    /\ Len(self.annotations) < Len(before.annotations)
    /\ \E k \in DOMAIN self.annotations, j \in DOMAIN self.images :
          self.annotations[k].image_id = self.images[j].id

(***************************************************************************)
(* SpecReindexImages: one reindex call on a dataset of images with         *)
(* distinct ids in Ids and caption annotations whose image_id is in Ids,   *)
(* so possibly dangling.                                                   *)
(***************************************************************************)
ReindexImagesDatasets(ids, n) ==
    {COCO(<<>>, FALSE, <<>>, images, annotations) :
        images \in ImageLists(ids, {"x"}, {0}, n),
        annotations \in NumberedLists(ids, ImageCaptioningAnnotation, n)}

InitReindexImages == InitWith(ReindexImagesDatasets(Ids, MaxLen), {Empty}, 1)

NextReindexImages == ReindexImage \/ ReindexImages

SpecReindexImages == InitReindexImages /\ [][NextReindexImages]_vars

\* C16: reindex_images(new_ids) with pairwise distinct new_ids of the right
\* length, on unique image ids and annotations that all reference existing
\* images, returns, leaves the i-th image with id new_ids[i] and every
\* annotation that referenced the i-th image referencing new_ids[i].
C16_ReindexImagesFollowsNewIds ==
    (/\ Called("reindex_images")
     /\ Last.ids # <<>>
     /\ Len(Last.ids) = Len(before.images)
     /\ Distinct(Last.ids)
     /\ UniqueIds(before)
     /\ ImagesExist(before))
    => /\ Last.err = ""
       /\ Len(self.images) = Len(before.images)
       /\ Len(self.annotations) = Len(before.annotations)
       /\ \A i \in DOMAIN before.images :
            /\ self.images[i] = [before.images[i] EXCEPT !.id = Last.ids[i]]
            /\ \A k \in DOMAIN before.annotations :
                 before.annotations[k].image_id = before.images[i].id
                 => self.annotations[k] =
                        [before.annotations[k] EXCEPT !.image_id = Last.ids[i]]

\* Two images with an annotation each were given each other's ids.
C16_ImagesSwapped ==
    /\ Called("reindex_images") /\ Last.err = ""
    /\ UniqueIds(before) /\ ImagesExist(before)
    /\ Len(before.images) = 2
    /\ Last.ids = <<before.images[2].id, before.images[1].id>>
    /\ {before.annotations[k].image_id : k \in DOMAIN before.annotations}
         = {before.images[1].id, before.images[2].id}

(***************************************************************************)
(* SpecCombineCategories: self.combine(other, ignore_duplicates) where     *)
(* self holds up to MaxLen categories of one name with supercategories     *)
(* "s" and "t", and other one category and one detection annotation.       *)
(***************************************************************************)
SelfCategoryDatasets(ids, n) ==
    {COCO(<<>>, categories # <<>>, categories, <<Image(0, "x", 0)>>,
          <<ObjectDetectionAnnotation(0, 0, 0)>>) :
        categories \in CategoryLists(ids, {"c"}, {"s", "t"}, n)}

OtherCategoryDatasets(ids) ==
    {COCO(<<>>, categories # <<>>, categories, <<Image(0, "y", 0)>>, annotations) :
        categories \in CategoryLists(ids, {"c"}, {"s", "t"}, 1),
        annotations \in {<<>>} \cup {<<ObjectDetectionAnnotation(0, 0, c)>> : c \in ids}}

InitCombineCategories ==
    InitWith(SelfCategoryDatasets(FewIds, MaxLen), OtherCategoryDatasets(FewIds), MaxCalls)

NextCombineCategories == Combine

SpecCombineCategories == InitCombineCategories /\ [][NextCombineCategories]_vars

\* The categories of d that carry the id have the name and supercategory of c.
SamePair(d, id, c) ==
    \A k \in DOMAIN d.categories :
        d.categories[k].id = id
        => /\ d.categories[k].name = c.name
           /\ d.categories[k].supercategory = c.supercategory

\* C17: after combine(other, ignore_duplicates=False) a category of other is
\* added unless self held a category of the same name and supercategory, and
\* every annotation added from other references a category with the name and
\* supercategory of the category it referenced in other.
C17_CombineFollowsCategoryPairs ==
    (Called("combine") /\ ~Last.flag /\ Last.err = "")
    => /\ Len(self.categories) - Len(before.categories)
            = Cardinality({k \in DOMAIN other.categories :
                              ~has_same_category(before, other.categories[k])})
       /\ \A k \in DOMAIN other.annotations :
            \A j \in DOMAIN other.categories :
                other.categories[j].id = other.annotations[k].category_id
                => LET added == self.annotations[Len(before.annotations) + k]
                   IN  /\ added.category_id \in Range(category_ids(self))
                       /\ SamePair(self, added.category_id, other.categories[j])

(***************************************************************************)
(* SpecSplit: self.split(percentage, seed) on datasets with up to MaxLen   *)
(* licenses, images and annotations, categories None or one category, and  *)
(* image licenses and annotation image ids in FewIds, so possibly          *)
(* dangling.  The percentages are the multiples of 1 / RatioDen from 0 to  *)
(* 1 and the next one, which split refuses.                                *)
(***************************************************************************)
SplitAnnotationPool(ids) ==
    {ObjectDetectionAnnotation(0, i, 0) : i \in ids}
    \cup {ImageCaptioningAnnotation(1, i) : i \in ids}

SplitDatasets(ids, n) ==
    {COCO(licenses, categories # <<>>, categories, images, annotations) :
        licenses \in NumberedLists({"a"}, License, n),
        categories \in CategoryLists(ids, {"c"}, {"s"}, 1),
        images \in ImageLists(ids, {"x"}, ids, n),
        annotations \in AnnotationLists(SplitAnnotationPool(ids), n)}

Percentages == {[num |-> num, den |-> RatioDen] : num \in 0..(RatioDen + 1)}

\* The positions of a list in the orders random.shuffle can leave them in.
Shuffles(s) == PermutationsOf([k \in DOMAIN s |-> k])

\* split(percentage, seed): i is the numerator of the percentage and ids the
\* order of the images after the shuffle.
Split ==
    \E percentage \in Percentages, order \in Shuffles(self.images) :
        LET r == split(self, percentage, [k \in DOMAIN order |-> self.images[order[k]]])
        IN  /\ Made([Call("split") EXCEPT !.i = percentage.num, !.ids = order],
                    [d |-> self, err |-> r.err])
            /\ split_datasets' = r.datasets
            /\ UNCHANGED result

InitSplit == InitWith(SplitDatasets(FewIds, MaxLen), {Empty}, MaxCalls)

NextSplit == Split

SpecSplit == InitSplit /\ [][NextSplit]_vars

\* The last call was split with a percentage between 0 and 1.
SplitCalled == Called("split") /\ Last.i \in 0..RatioDen

\* The two datasets hold the images of self between them, the first
\* floor(n * percentage) of them, and every annotation of self is in exactly
\* one of them, one that holds its image.
ImagesPartitioned ==
    /\ Len(split_datasets) = 2
    /\ Len(split_datasets[1].images) + Len(split_datasets[2].images) = Len(self.images)
    /\ Len(split_datasets[1].images) = (Len(self.images) * Last.i) \div RatioDen
    /\ Range(split_datasets[1].images) \cap Range(split_datasets[2].images) = {}
    /\ \A k \in DOMAIN self.annotations :
         LET a == self.annotations[k]
             sides == {side \in 1..2 : a \in Range(split_datasets[side].annotations)}
         IN  /\ Cardinality(sides) = 1
             /\ \A side \in sides : a.image_id \in Range(image_ids(split_datasets[side]))

\* C19: split(ratio, seed) with ratio in [0, 1] on a dataset of n images
\* returns two datasets whose image counts sum to n, the first with
\* floor(n * ratio) images, no image on both sides, and every annotation of
\* the source on exactly one side, the side that holds its image.
C19_SplitPartitionsImages == SplitCalled => (Last.err = "" /\ ImagesPartitioned)

\* The same as C19 for the calls that return on a dataset whose annotations
\* all reference existing images.
SplitPartitionsImagesWhenItReturns ==
    (SplitCalled /\ Last.err = "" /\ ImagesExist(self)) => ImagesPartitioned

\* The dataset `part` returned by split carries the licenses of self its
\* images reference, the annotations of self on its images and the categories
\* of self those annotations reference.
CarriesReachable(part) ==
    /\ Range(part.licenses)
         = {l \in Range(self.licenses) :
               \E k \in DOMAIN part.images : part.images[k].license = l.id}
    /\ Range(part.annotations)
         = {a \in Range(self.annotations) : a.image_id \in Range(image_ids(part))}
    /\ Range(part.categories)
         = {c \in Range(self.categories) :
               \E k \in DOMAIN part.annotations : RefersToCategory(part.annotations[k], c.id)}

\* C20: for every dataset and ratio in [0, 1] split succeeds and each of the
\* two returned datasets carries exactly the licenses its images reference,
\* the annotations on its images and the categories those annotations
\* reference, also when an image's license is unset or dangling.
C20_SplitSucceedsAndCarriesReachable ==
    SplitCalled => /\ Last.err = ""
                   /\ Len(split_datasets) = 2
                   /\ CarriesReachable(split_datasets[1])
                   /\ CarriesReachable(split_datasets[2])

\* The same as C20 for the calls that return.
SplitCarriesReachableWhenItReturns ==
    (SplitCalled /\ Last.err = "")
    => (Len(split_datasets) = 2 /\ CarriesReachable(split_datasets[1]) /\ CarriesReachable(split_datasets[2]))

(***************************************************************************)
(* SpecQuery: one query on a dataset with one license, one image,          *)
(* categories None or up to MaxLen of them, and up to MaxLen detection,    *)
(* caption and panoptic annotations on the image.  The arguments are ids,  *)
(* names, records and lists of records, stored in the dataset or not.      *)
(***************************************************************************)
\* One category like object per id.
CategoryInputs == {Category(id, "c", "s") : id \in FewIds}

\* Lists of categories a caller passes: none, one, the stored ones.
CategoryListInputs == {<<>>} \cup {<<c>> : c \in CategoryInputs} \cup {self.categories}

GetCategory ==
    \E input \in {Input("int", id) : id \in FewIds} \cup {Input("str", "c")}
                 \cup {Input("Annotation", a) : a \in Range(self.annotations)} :
        Asked("get_category", input, get_category(self, input))

GetCategories ==
    \E input \in {Input("str", "s"), Input("List[Image]", self.images),
                   Input("List[Annotation]", self.annotations)}
                 \cup {Input("Image", image) : image \in Range(self.images)} :
        Asked("get_categories", input, get_categories(self, input))

GetImages ==
    \E input \in {Input("int", 0), Input("str", "a"), Input("License", License(0, "a")),
                   Input("List[Annotation]", self.annotations)}
                 \cup {Input("Category", c) : c \in CategoryInputs}
                 \cup {Input("List[Category]", l) : l \in CategoryListInputs} :
        Asked("get_images", input, get_images(self, input))

GetAnnotationsByCategory ==
    \E input \in {Input("int", id) : id \in FewIds} \cup {Input("str", "c")}
                 \cup {Input("Category", c) : c \in CategoryInputs}
                 \cup {Input("List[Category]", l) : l \in CategoryListInputs} :
        Asked("get_annotations_by_category", input,
              get_annotations_by_category_input(self, input))

GetAnnotationsBySupercategory ==
    \E input \in {Input("str", "s"), Input("str", "t")} :
        Asked("get_annotations_by_supercategory", input,
              get_annotations_by_supercategory(self, input))

GetAnnotation ==
    \E input \in {Input("int", id) : id \in FewIds} :
        Asked("get_annotation", input, get_annotation_or_raise(self, input))

InitQuery == InitWith(CategoryDatasets(FewIds, MaxLen), {Empty}, MaxCalls)

NextQuery ==
    \/ GetCategory
    \/ GetCategories
    \/ GetImages
    \/ GetAnnotationsByCategory
    \/ GetAnnotationsBySupercategory
    \/ GetAnnotation

SpecQuery == InitQuery /\ [][NextQuery]_vars

\* The last call was a query that depends on the categories: get_category,
\* get_categories, get_images given a Category or a list of them,
\* get_annotations_by_category or get_annotations_by_supercategory.
CategoryQueryCalled ==
    \/ Called("get_category") \/ Called("get_categories")
    \/ Called("get_annotations_by_category") \/ Called("get_annotations_by_supercategory")
    \/ Called("get_images") /\ result.input.type \in {"Category", "List[Category]"}

\* C21: when categories is None every category-dependent query returns None
\* or an empty list and does not raise.
C21_CategoryQueriesDegrade ==
    (CategoryQueryCalled /\ ~self.has_categories)
    => (Last.err = "" /\ result.items = <<>>)

\* The ids of the segments of the panoptic annotations of d.
SegmentIdsOf(d) ==
    UNION {{d.annotations[k].segments_info[j].id :
               j \in DOMAIN d.annotations[k].segments_info} :
           k \in {i \in DOMAIN d.annotations : IsPanoptic(d.annotations[i])}}

\* C29: get_annotation(id) with the id of a segment of a panoptic annotation
\* of the dataset returns an annotation instead of failing.
C29_SegmentIdFindsAnnotation ==
    (/\ Called("get_annotation")
     /\ result.input.value \in SegmentIdsOf(self))
    => (Last.err = "" /\ result.ret = "one")

\* The category ids a get_annotations_by_category input asks for.
AskedCategoryIds(d, input) ==
    CASE input.type = "int" -> {input.value}
      [] input.type = "str" ->
             {d.categories[k].id : k \in {i \in DOMAIN d.categories :
                                              d.categories[i].name = input.value}}
      [] input.type = "Category" -> {input.value.id}
      [] OTHER -> {input.value[k].id : k \in DOMAIN input.value}

\* The annotation is linked to one of the categories: by its category_id, or,
\* panoptic, by the category of one of its segments.
LinkedTo(a, ids) ==
    \/ Categorized(a) /\ a.category_id \in ids
    \/ IsPanoptic(a) /\ \E j \in DOMAIN a.segments_info :
                            a.segments_info[j].category_id \in ids

\* C30: on a dataset with categories whose annotations are all
\* category-linked or panoptic, get_annotations_by_category returns for each
\* of its four input shapes the annotations linked to the category, the
\* panoptic ones by any of their segments, and does not fail.
C30_ByCategoryCoversPanoptic ==
    (/\ Called("get_annotations_by_category")
     /\ ~no_categories(self)
     /\ isinstances(self.annotations, CategorizedOrPanoptic))
    => /\ Last.err = ""
       /\ result.items
              = SelectSeq(self.annotations,
                          LAMBDA a : LinkedTo(a, AskedCategoryIds(self, result.input)))

(***************************************************************************)
(* SpecLookup: one lookup on a dataset whose licenses and categories carry *)
(* one list of (id, name) pairs and whose images another, names possibly   *)
(* repeated, each image with its own id as license, and at most one        *)
(* caption annotation; so an image's license and an annotation's image_id  *)
(* may dangle.  The keys asked for are ids, names, and stored records.     *)
(***************************************************************************)
KeyLists(ids, n) ==
    {s \in SeqsUpTo(ids \X {"a", "b"}, n) : Distinct([k \in DOMAIN s |-> s[k][1]])}

LookupDatasets(ids, n) ==
    {COCO([k \in DOMAIN s |-> License(s[k][1], s[k][2])],
          has_categories,
          IF has_categories THEN [k \in DOMAIN s |-> Category(s[k][1], s[k][2], "s")]
          ELSE <<>>,
          [k \in DOMAIN t |-> Image(t[k][1], t[k][2], t[k][1])],
          annotations) :
        s \in KeyLists(ids, n), t \in KeyLists(ids, n), has_categories \in BOOLEAN,
        annotations \in NumberedLists(ids, ImageCaptioningAnnotation, 1)}

\* The ids and names a caller asks for: those in use and one more of each.
Keys == {Input("int", id) : id \in Ids} \cup {Input("str", name) : name \in {"a", "b", "c"}}

LookupLicense ==
    \E input \in Keys \cup {Input("Image", image) : image \in Range(self.images)} :
        Asked("get_license", input, get_license(self, input))

LookupCategory ==
    \E input \in Keys : Asked("get_category", input, get_category(self, input))

LookupImage ==
    \E input \in Keys \cup {Input("Annotation", a) : a \in Range(self.annotations)} :
        Asked("get_image", input, get_image(self, input))

LookupImages ==
    \E input \in Keys : Asked("get_images", input, get_images(self, input))

LookupAnnotations ==
    \E input \in Keys : Asked("get_annotations", input, get_annotations(self, input))

InitLookup == InitWith(LookupDatasets(FewIds, MaxLen), {Empty}, 1)

NextLookup ==
    \/ LookupLicense
    \/ LookupCategory
    \/ LookupImage
    \/ LookupImages
    \/ LookupAnnotations

SpecLookup == InitLookup /\ [][NextLookup]_vars

\* C22: a lookup whose key resolves to nothing returns None or an empty list
\* and does not raise: get_license(image), get_image(annotation),
\* get_images(license_name) and get_annotations(file_name).
C22_UnresolvedLookupsReturnNothing ==
    /\ (Called("get_license") /\ result.input.type = "Image"
           /\ result.input.value.license \notin Range(license_ids(self)))
       => (Last.err = "" /\ result.items = <<>>)
    /\ (Called("get_image") /\ result.input.type = "Annotation"
           /\ result.input.value.image_id \notin Range(image_ids(self)))
       => (Last.err = "" /\ result.items = <<>>)
    /\ (Called("get_images") /\ result.input.type = "str"
           /\ result.input.value \notin Range(license_names(self)))
       => (Last.err = "" /\ result.items = <<>>)
    /\ (Called("get_annotations") /\ result.input.type = "str" /\ ~ImagesExist(self))
       => Last.err = ""

\* The record a lookup by id or name returned is None when no record of the
\* list carries the key and else the first record of the list that does.
FirstCarrying(records, Carries(_)) ==
    /\ Last.err = ""
    /\ self = before
    /\ IF \E k \in DOMAIN records : Carries(records[k])
       THEN /\ result.ret = "one"
            /\ \E k \in DOMAIN records :
                 /\ result.items = <<records[k]>>
                 /\ Carries(records[k])
                 /\ \A j \in 1..(k - 1) : ~Carries(records[j])
       ELSE result.ret = "None"

\* The last call was a lookup by id or by name.
ByKey == result.input.type \in {"int", "str"}

\* The record carries the key asked for as id or as name.
HasKey(id, name) ==
    IF result.input.type = "int" THEN id = result.input.value ELSE name = result.input.value

\* C23: get_license, get_category and get_image called with an id or a name
\* return None when no record carries it and else the first record in
\* collection order that carries it, do not raise and leave the dataset as
\* it was.
C23_LookupByKey ==
    /\ (Called("get_license") /\ ByKey)
       => FirstCarrying(self.licenses, LAMBDA license : HasKey(license.id, license.name))
    /\ (Called("get_category") /\ ByKey)
       => FirstCarrying(self.categories, LAMBDA category : HasKey(category.id, category.name))
    /\ (Called("get_image") /\ ByKey)
       => FirstCarrying(self.images, LAMBDA image : HasKey(image.id, image.file_name))

\* get_license was asked for a name two licenses carry, and returned the first.
C23_FirstOfTwoLicensesReturned ==
    /\ Called("get_license") /\ result.input.type = "str"
    /\ Len(self.licenses) = 2
    /\ self.licenses[1].name = result.input.value
    /\ self.licenses[2].name = result.input.value
    /\ result.items = <<self.licenses[1]>>

(***************************************************************************)
(* SpecRemoveCopy: remove_<entity> called with a record the caller built,  *)
(* which is no object of the dataset (the call's i is 0) and whose fields  *)
(* may equal those of a stored record.                                     *)
(***************************************************************************)
RemoveLicenseCopy ==
    \E id \in FewIds, name \in {"a", "b"}, rm_images, rm_annotations \in BOOLEAN :
        Do([Call("remove_license") EXCEPT !.id = id, !.flag = rm_images,
                                          !.flag2 = rm_annotations],
           Ok(remove_license(self, License(id, name), rm_images, rm_annotations)))

RemoveCategoryCopy ==
    \E id \in FewIds, name \in {"a", "b"}, rm_annotations \in BOOLEAN :
        Do([Call("remove_category") EXCEPT !.id = id, !.flag = rm_annotations],
           Ok(remove_category(self, Category(id, name, "s"), rm_annotations)))

RemoveImageCopy ==
    \E id \in FewIds, file_name \in {"a", "b"}, rm_annotations \in BOOLEAN :
        Do([Call("remove_image") EXCEPT !.id = id, !.flag = rm_annotations],
           Ok(remove_image(self, Image(id, file_name, id), rm_annotations)))

RemoveAnnotationCopy ==
    \E image_id \in FewIds :
        Do([Call("remove_annotation") EXCEPT !.id = 0],
           Ok(remove_annotation(self, ImageCaptioningAnnotation(0, image_id))))

InitRemoveCopy == InitWith(LookupDatasets(FewIds, MaxLen), {Empty}, MaxCalls)

NextRemoveCopy ==
    \/ RemoveLicenseCopy
    \/ RemoveCategoryCopy
    \/ RemoveImageCopy
    \/ RemoveAnnotationCopy

SpecRemoveCopy == InitRemoveCopy /\ [][NextRemoveCopy]_vars

\* C24: remove_license, remove_category, remove_image and remove_annotation
\* called with a record that is not itself stored in the dataset remove
\* nothing and cascade nothing, also when its fields equal those of a stored
\* record.
C24_RemoveOfCopyIsNoOp ==
    (/\ \/ Called("remove_license") \/ Called("remove_category")
        \/ Called("remove_image") \/ Called("remove_annotation")
     /\ Last.i = 0)
    => Same(self, before)

(***************************************************************************)
(* SpecAppend: two calls, each a get_new_*_id or an append, on a dataset   *)
(* whose licenses and images carry one list of ids and whose categories    *)
(* (when not None) and annotations another; so an append finds ids         *)
(* reserved, and finds its record's id free or taken.                      *)
(***************************************************************************)
\* append_annotation(annotation); the call keeps the annotation's id and
\* whether the annotation is Indexed.
AppendAnnotation ==
    \E annotation \in {ObjectDetectionAnnotation(id, 0, 0) : id \in Ids}
                      \cup {ImageCaptioningAnnotation(id, 0) : id \in Ids}
                      \cup {PanopticSegmentationAnnotation(0, <<SegmentInfo(0, 0)>>)} :
        Do([Call("append_annotation") EXCEPT !.id = annotation.id,
                                             !.flag = Indexed(annotation)],
           append_annotation(self, annotation))

InitAppend == InitWith(AllocatorDatasets(FewIds, MaxLen), {Empty}, 2)

NextAppend ==
    \/ NewLicenseId
    \/ NewCategoryId
    \/ NewImageId
    \/ NewAnnotationId
    \/ AppendLicense
    \/ AppendCategory
    \/ AppendImage
    \/ AppendAnnotation

SpecAppend == InitAppend /\ [][NextAppend]_vars

\* The last call, an append to the collection `name`, failed with ValueError
\* and changed nothing when `taken`, and else added one record with the
\* call's id at the end of the collection and left the other collections.
AppendedUnless(taken, name) ==
    IF taken
    THEN Last.err = "ValueError" /\ self = before
    ELSE /\ Last.err = ""
         /\ Len(self[name]) = Len(before[name]) + 1
         /\ SubSeq(self[name], 1, Len(before[name])) = before[name]
         /\ self[name][Len(self[name])].id = Last.id
         /\ \A other_name \in {"licenses", "categories", "images", "annotations"} \ {name} :
              self[other_name] = before[other_name]

\* C25: an append fails with ValueError when the record's id is carried by a
\* record of its collection (for annotations when the annotation is Indexed)
\* and then leaves the collections and the reservation buffers as they were;
\* else it adds exactly that record at the end of its collection.
C25_AppendFailsOnTakenId ==
    /\ Called("append_license")
       => AppendedUnless(Last.id \in Range(license_ids(before)), "licenses")
    /\ Called("append_category")
       => AppendedUnless(Last.id \in Range(category_ids(before)), "categories")
    /\ Called("append_image")
       => AppendedUnless(Last.id \in Range(image_ids(before)), "images")
    /\ Called("append_annotation")
       => AppendedUnless(Last.flag /\ Last.id \in Range(annotation_ids(before)),
                         "annotations")

\* An append of an image failed while an image id was reserved.
C25_AppendFailedWithReservedId ==
    /\ Called("append_image") /\ Last.err = "ValueError"
    /\ self.cached_image_ids # <<>>

(***************************************************************************)
(* SpecExtend: one extend_<entity>(list) with a list of up to MaxLen       *)
(* records, ids in Ids, on a dataset with up to MaxLen records per         *)
(* collection; the call keeps the ids of the list, None for an annotation  *)
(* that is not Indexed.                                                    *)
(***************************************************************************)
ExtendLicenses ==
    \E ids \in SeqsUpTo(Ids, MaxLen) :
        Do([Call("extend_licenses") EXCEPT !.ids = ids],
           extend_licenses(Ok(self), [k \in DOMAIN ids |-> License(ids[k], "a")]))

ExtendCategories ==
    \E ids \in SeqsUpTo(Ids, MaxLen) :
        Do([Call("extend_categories") EXCEPT !.ids = ids],
           extend_categories(Ok(self), [k \in DOMAIN ids |-> Category(ids[k], "c", "s")]))

ExtendImages ==
    \E ids \in SeqsUpTo(Ids, MaxLen) :
        Do([Call("extend_images") EXCEPT !.ids = ids],
           extend_images(Ok(self), [k \in DOMAIN ids |-> Image(ids[k], "x", 0)]))

ExtendAnnotations ==
    \E ids \in SeqsUpTo(Ids \cup {None}, MaxLen) :
        Do([Call("extend_annotations") EXCEPT !.ids = ids],
           extend_annotations(Ok(self),
               [k \in DOMAIN ids |->
                   IF ids[k] = None THEN PanopticSegmentationAnnotation(0, <<SegmentInfo(0, 0)>>)
                   ELSE ImageCaptioningAnnotation(ids[k], 0)]))

InitExtend == InitWith(AllocatorDatasets(FewIds, MaxLen), {Empty}, 1)

NextExtend ==
    \/ ExtendLicenses
    \/ ExtendCategories
    \/ ExtendImages
    \/ ExtendAnnotations

SpecExtend == InitExtend /\ [][NextExtend]_vars

\* The positions of the list of the last call whose id is an id of `ids` or
\* of an earlier element of the list.
Failing(ids) ==
    {k \in DOMAIN Last.ids :
        /\ Last.ids[k] # None
        /\ \/ Last.ids[k] \in Range(ids)
           \/ \E j \in 1..(k - 1) : Last.ids[j] = Last.ids[k]}

\* The first n ids of the list of the last call, those of no record left out.
IdsTaken(n) == SelectSeq(SubSeq(Last.ids, 1, n), LAMBDA id : id # None)

\* The collection `name` is as before with the elements of the list added
\* that come before the first failing one, and the call raised ValueError
\* when one fails.
ExtendedUntilFailure(ids_before, ids_after, name) ==
    LET failing == Failing(ids_before)
        taken == IF failing = {} THEN Len(Last.ids)
                 ELSE (CHOOSE k \in failing : \A j \in failing : k <= j) - 1
    IN  /\ Last.err = IF failing = {} THEN "" ELSE "ValueError"
        /\ Len(self[name]) = Len(before[name]) + taken
        /\ SubSeq(self[name], 1, Len(before[name])) = before[name]
        /\ ids_after = ids_before \o IdsTaken(taken)

\* C26: extend_<entity>(list) appends the elements in list order with no
\* rollback: when the k-th element fails with ValueError the elements before
\* it are in the collection, the k-th and the later ones are not, and the
\* error reaches the caller.
C26_ExtendStopsAtFirstFailure ==
    /\ Called("extend_licenses")
       => ExtendedUntilFailure(license_ids(before), license_ids(self), "licenses")
    /\ Called("extend_categories")
       => ExtendedUntilFailure(category_ids(before), category_ids(self), "categories")
    /\ Called("extend_images")
       => ExtendedUntilFailure(image_ids(before), image_ids(self), "images")
    /\ Called("extend_annotations")
       => ExtendedUntilFailure(annotation_ids(before), annotation_ids(self), "annotations")

\* extend_annotations raised on its second annotation and the first one is in.
C26_FirstInSecondFailed ==
    /\ Called("extend_annotations") /\ Last.err = "ValueError"
    /\ Len(Last.ids) = 2
    /\ Len(self.annotations) = Len(before.annotations) + 1

(***************************************************************************)
(* SpecCombineOther: self.combine(other, ignore_duplicates) with the        *)
(* caller's dataset `other` followed through the call.  combine reindexes   *)
(* and reads new_coco; which object that name is bound to decides what the  *)
(* caller sees afterwards.                                                  *)
(***************************************************************************)
\* The name new_coco keeps the argument: what combine did to new_coco is what
\* the caller's dataset went through.
rebound_to_argument(argument, new_coco) == new_coco

\* new_coco = deepcopy(new_coco): the name is rebound to a copy that shares
\* no record with the argument, so the caller's dataset is the argument as
\* it was whatever combine did to new_coco afterwards.
deepcopy(argument, new_coco) == argument

CombineOther ==
    \E ignore_duplicates \in BOOLEAN :
        LET r == combine(self, other, ignore_duplicates)
        IN  /\ budget > 0
            /\ budget' = budget - 1
            /\ self' = r.self
            /\ before' = self
            /\ other' = deepcopy(other, r.new_coco)
            /\ calls' = Append(calls, [Call("combine") EXCEPT !.flag = ignore_duplicates,
                                                              !.err = r.err])
            /\ UNCHANGED <<start, split_datasets, result>>

\* The records' ids go up along the list.
IdsGoUp(records) == \A j, k \in DOMAIN records : j < k => records[j].id < records[k].id

\* The datasets the caller passes: those of OtherDatasets whose licenses and
\* images are listed by ascending id.
CallerDatasets(ids, n) ==
    {COCO(licenses, categories # <<>>, categories, images, annotations) :
        licenses \in {s \in LicenseLists(ids, {"a", "b"}, n) : IdsGoUp(s)},
        categories \in CombineCategories,
        images \in {s \in ImageLists(ids, {"x", "y"}, ids, n) :
                        IdsGoUp(s) /\ Distinct([k \in DOMAIN s |-> s[k].file_name])},
        annotations \in CombineAnnotations(ids)}

InitCombineOther == InitWith(SelfDatasets({0}), CallerDatasets(FewIds, MaxLen), MaxCalls)

NextCombineOther == CombineOther

SpecCombineOther == InitCombineOther /\ [][NextCombineOther]_vars

UniqueDatasets(ids, n) ==
    {COCO([k \in DOMAIN s |-> License(s[k], "a")],
          has_categories,
          IF has_categories THEN [k \in DOMAIN t |-> Category(t[k], "c", "s")] ELSE <<>>,
          [k \in DOMAIN s |-> Image(s[k], "x", 0)],
          first \o [k \in DOMAIN t |-> ObjectDetectionAnnotation(t[k], 0, 0)]) :
        s \in IdLists(ids, n), t \in IdLists(ids, n), has_categories \in BOOLEAN,
        first \in {<<>>, <<PanopticSegmentationAnnotation(0, <<SegmentInfo(0, 0)>>)>>}}

\* The new ids a caller passes for a collection of n records: none, or n
\* pairwise distinct ones.
DistinctNewIds(n) ==
    {<<>>} \cup {s \in SeqsUpTo(NewIds, MaxLen) : Len(s) = n /\ Distinct(s)}

RemoveAnnotation ==
    \E i \in DOMAIN self.annotations :
        Do([Call("remove_annotation") EXCEPT !.i = i],
           Ok(remove_annotation(self, self.annotations[i])))

ReindexLicensesDistinct ==
    \E new_ids \in DistinctNewIds(Len(self.licenses)) :
        Do([Call("reindex_licenses") EXCEPT !.ids = new_ids],
           reindex_licenses(self, new_ids))

ReindexCategoriesDistinct ==
    \E new_ids \in DistinctNewIds(Len(self.categories)) :
        Do([Call("reindex_categories") EXCEPT !.ids = new_ids],
           reindex_categories(self, new_ids))

ReindexImagesDistinct ==
    \E new_ids \in DistinctNewIds(Len(self.images)) :
        Do([Call("reindex_images") EXCEPT !.ids = new_ids],
           reindex_images(self, new_ids))

ReindexAnnotationsDistinct ==
    \E new_ids \in DistinctNewIds(Len(self.annotations)) :
        Do([Call("reindex_annotations") EXCEPT !.ids = new_ids],
           reindex_annotations(self, new_ids))

InitUnique == InitWith(UniqueDatasets(FewIds, MaxLen), {Empty}, MaxTripCalls)

NextUnique ==
    \/ AppendLicense
    \/ AppendCategory
    \/ AppendImage
    \/ AppendAnnotation
    \/ RemoveLicense
    \/ RemoveCategory
    \/ RemoveImage
    \/ RemoveAnnotation
    \/ TrimLicenses
    \/ TrimCategories
    \/ TrimImages
    \/ TrimAnnotations
    \/ TrimDataset
    \/ ReindexLicensesDistinct
    \/ ReindexCategoriesDistinct
    \/ ReindexImagesDistinct
    \/ ReindexAnnotationsDistinct
    \/ ReindexDataset

SpecUnique == InitUnique /\ [][NextUnique]_vars

\* C36: from a dataset with unique ids, after any sequence of append_*,
\* remove_*, trim_*, plural reindex_* with omitted or pairwise distinct new
\* ids and reindex_dataset, the ids of each collection are pairwise distinct.
C36_IdsStayUnique == UniqueIds(self)

\* Two calls were made, the last a reindex_annotations with given new ids one
\* of which an annotation carried, and it returned.
C36_ReindexedOntoTakenId ==
    /\ Len(calls) = 2
    /\ Called("reindex_annotations") /\ Last.err = ""
    /\ Len(Last.ids) >= 2
    /\ \E k \in DOMAIN Last.ids : Last.ids[k] \in Range(annotation_ids(before))

(***************************************************************************)
(* SpecFirstId: the allocators and combine on datasets that may have no    *)
(* license, no category list, no image or no annotation.  self holds at    *)
(* most one record per collection, other at most MaxLen licenses and       *)
(* images and one annotation.                                              *)
(***************************************************************************)
InitFirstId == InitWith(SelfDatasets({0}), CallerDatasets({0}, MaxLen), MaxCalls)

NextFirstId ==
    \/ NewLicenseId
    \/ NewCategoryId
    \/ NewImageId
    \/ NewAnnotationId
    \/ Combine

SpecFirstId == InitFirstId /\ [][NextFirstId]_vars

AllocatorCalled ==
    /\ calls # <<>>
    /\ Last.op \in {"get_new_license_id", "get_new_category_id",
                    "get_new_image_id", "get_new_annotation_id"}

\* C39: get_new_<entity>_id() on a collection with no committed id and an
\* empty reservation buffer raises and reserves nothing; and combine(other)
\* raises when self has no license, no image or no Indexed annotation (and
\* nothing reserved for the collection) while other has records of that kind.
C39_NoFirstId ==
    /\ (/\ AllocatorCalled
        /\ CommittedIds(before, Last.op) = <<>>
        /\ ReservedIds(before, Last.op) = <<>>)
       => (Last.err # "" /\ self = before)
    /\ (/\ Called("combine")
        /\ \/ (/\ before.licenses = <<>> /\ before.cached_license_ids = <<>>
               /\ other.licenses # <<>>)
           \/ (/\ before.images = <<>> /\ before.cached_image_ids = <<>>
               /\ other.images # <<>>)
           \/ (/\ annotation_ids(before) = <<>> /\ before.cached_annotation_ids = <<>>
               /\ other.annotations # <<>>))
       => Last.err # ""

\* combine raised on a dataset with a license and no image, given a dataset
\* with an image.
C39_CombineIntoNoImagesFailed ==
    /\ Called("combine") /\ Last.err = "ValueError"
    /\ before.licenses # <<>> /\ before.images = <<>>
    /\ other.images # <<>>

(***************************************************************************)
(* Records from mappings.  A mapping is a function from its keys to their  *)
(* values; a constructed record is the class name with the mapping of its  *)
(* fields.  The values stand for themselves: a key's value is the one      *)
(* ValueOf gives it, a list where the class holds a list.                  *)
(***************************************************************************)
\* fields(cls): the names the dataclass declares, inherited ones included.
fields(cls) ==
    CASE cls = "Info" ->
             {"year", "version", "description", "contributor", "url", "date_created"}
      [] cls = "License" -> {"id", "name", "url"}
      [] cls = "Image" ->
             {"id", "width", "height", "file_name", "license", "flickr_url",
              "coco_url", "date_captured"}
      [] cls = "ObjectDetectionCategory" -> {"id", "name", "supercategory"}
      [] cls = "KeypointDetectionCategory" ->
             {"id", "name", "supercategory", "keypoints", "skeleton"}
      [] cls = "PanopticSegmentationCategory" ->
             {"id", "name", "supercategory", "isthing", "color"}
      [] cls = "SegmentInfo" -> {"id", "category_id", "area", "bbox", "iscrowd"}
      [] cls = "ObjectDetectionAnnotation" ->
             {"id", "image_id", "category_id", "segmentation", "area", "bbox", "iscrowd"}
      [] cls = "KeypointDetectionAnnotation" ->
             {"id", "image_id", "category_id", "segmentation", "area", "bbox", "iscrowd",
              "keypoints", "num_keypoints"}
      [] cls = "PanopticSegmentationAnnotation" -> {"image_id", "file_name", "segments_info"}
      [] cls = "ImageCaptioningAnnotation" -> {"id", "image_id", "caption"}
      [] cls = "DensePoseAnnotation" ->
             {"id", "image_id", "category_id", "is_crowd", "area", "bbox",
              "dp_I", "dp_U", "dp_V", "dp_x", "dp_y", "dp_masks"}
      [] cls = "COCO" -> {"info", "licenses", "categories", "images", "annotations"}

\* compare_dict_structure(dictionatry, obj, ignore_extra_keys): the error it
\* raises, "" when it returns.
compare_dict_structure(dictionatry, obj, ignore_extra_keys) ==
    LET missed_keys == fields(obj) \ DOMAIN dictionatry
        extra_keys == DOMAIN dictionatry \ fields(obj)
    IN  IF missed_keys # {} THEN "ValueError"
        ELSE IF extra_keys # {} /\ ~ignore_extra_keys THEN "ValueError"
        ELSE ""

\* The record of class cls with the fields of the mapping.
Record(cls, mapping) == [cls |-> cls, fields |-> mapping]

\* cls(**kwargs): a keyword that is no field is a TypeError.  Every class
\* here gives each field a default or gets it from the mapping, and
\* from_dict comes here only with no declared field missing.
construct(cls, kwargs) ==
    IF DOMAIN kwargs \subseteq fields(cls)
    THEN ReturnOne(Record(cls, kwargs))
    ELSE Raising("TypeError")

\* The mapping cut down to the keys named.
Only(mapping, keys) == [k \in DOMAIN mapping \cap keys |-> mapping[k]]

\* <cls>.from_dict(mapping, ignore_extra_keys) of Info, License, Image, the
\* three Category classes and ImageCaptioningAnnotation:
\* compare_dict_structure, then cls(**mapping).
from_dict(cls, mapping, ignore_extra_keys) ==
    LET err == compare_dict_structure(mapping, cls, ignore_extra_keys)
    IN  IF err # "" THEN Raising(err) ELSE construct(cls, mapping)

\* ObjectDetectionAnnotation, KeypointDetectionAnnotation and
\* DensePoseAnnotation .from_dict: compare_dict_structure, then cls(...) with
\* each declared field read from the mapping by name (a segmentation that is
\* a list and dp_masks without masks, so no RLE is built).
from_dict_by_name(cls, annotation_dict, ignore_index) ==
    LET err == compare_dict_structure(annotation_dict, cls, ignore_index)
    IN  IF err # "" THEN Raising(err)
        ELSE construct(cls, Only(annotation_dict, fields(cls)))

\* PanopticSegmentationAnnotation.from_dict: compare_dict_structure, then
\* SegmentInfo.from_dict(annotation_dict['segments_info'], ignore_index) on
\* the list itself, whose compare_dict_structure asks the list for keys().
panoptic_from_dict(annotation_dict, ignore_index) ==
    LET err == compare_dict_structure(annotation_dict, "PanopticSegmentationAnnotation",
                                      ignore_index)
    IN  IF err # "" THEN Raising(err) ELSE Raising("AttributeError")

DICT_TO_CATEGORY_MAP(kind) ==
    CASE kind = "object_detection" -> {"id", "name", "supercategory"}
      [] kind = "keypoint_detection" -> {"id", "name", "supercategory", "keypoints", "skeleton"}
      [] kind = "panoptic_segmentation" -> {"id", "name", "supercategory", "isthing", "color"}

dict_to_category(category_dict, ignore_extra_keys) ==
    IF DICT_TO_CATEGORY_MAP("object_detection") \subseteq DOMAIN category_dict
    THEN from_dict("ObjectDetectionCategory", category_dict, ignore_extra_keys)
    ELSE IF DICT_TO_CATEGORY_MAP("keypoint_detection") \subseteq DOMAIN category_dict
    THEN from_dict("KeypointDetectionCategory", category_dict, ignore_extra_keys)
    ELSE IF DICT_TO_CATEGORY_MAP("panoptic_segmentation") \subseteq DOMAIN category_dict
    THEN from_dict("PanopticSegmentationCategory", category_dict, ignore_extra_keys)
    ELSE Raising("ValueError")

DICT_TO_ANNOTATION_MAP(kind) ==
    CASE kind = "object_detection" ->
             {"id", "image_id", "category_id", "segmentation", "area", "bbox", "iscrowd"}
      [] kind = "keypoint_detection" ->
             {"id", "image_id", "category_id", "segmentation", "area", "bbox", "iscrowd",
              "keypoints", "skeleton"}
      [] kind = "panoptic_segmentation" -> {"image_id", "file_name", "segments_info"}
      [] kind = "image_captioning" -> {"id", "image_id", "caption"}
      [] kind = "dense_pose" ->
             {"id", "image_id", "category_id", "is_crowd", "area", "bbox",
              "dp_I", "dp_U", "dp_V", "dp_x", "dp_y", "dp_masks"}

dict_to_annotation(annotation_dict, ignore_extra_keys) ==
    IF DICT_TO_ANNOTATION_MAP("object_detection") \subseteq DOMAIN annotation_dict
    THEN from_dict_by_name("ObjectDetectionAnnotation", annotation_dict, ignore_extra_keys)
    ELSE IF DICT_TO_ANNOTATION_MAP("keypoint_detection") \subseteq DOMAIN annotation_dict
    THEN from_dict_by_name("KeypointDetectionAnnotation", annotation_dict, ignore_extra_keys)
    ELSE IF DICT_TO_ANNOTATION_MAP("panoptic_segmentation") \subseteq DOMAIN annotation_dict
    THEN panoptic_from_dict(annotation_dict, ignore_extra_keys)
    ELSE IF DICT_TO_ANNOTATION_MAP("image_captioning") \subseteq DOMAIN annotation_dict
    THEN from_dict("ImageCaptioningAnnotation", annotation_dict, ignore_extra_keys)
    ELSE IF DICT_TO_ANNOTATION_MAP("dense_pose") \subseteq DOMAIN annotation_dict
    THEN from_dict_by_name("DensePoseAnnotation", annotation_dict, ignore_extra_keys)
    ELSE Raising("ValueError")

(***************************************************************************)
(* SpecFromDict: one record built from a mapping, by a class's from_dict   *)
(* or by a dispatcher.  The mappings carry the keys of a class or of a     *)
(* dispatch table entry, with any of them left out and with or without a   *)
(* key no class declares.                                                  *)
(***************************************************************************)
\* The value a mapping holds under a key: a list for the list-typed fields,
\* a string for the text fields, a number for the others.
ValueOf(key) ==
    CASE key \in {"segmentation", "bbox", "keypoints", "skeleton", "color", "segments_info",
                  "dp_I", "dp_U", "dp_V", "dp_x", "dp_y", "dp_masks"} -> <<>>
      [] key \in {"name", "url", "version", "description", "contributor", "date_created",
                  "file_name", "flickr_url", "coco_url", "date_captured",
                  "supercategory", "caption"} -> "a"
      [] OTHER -> 0

MappingOver(keys) == [k \in keys |-> ValueOf(k)]

\* The mappings over any of the keys, and over any of them and "extra".
Mappings(keys) == {MappingOver(K) : K \in SUBSET (keys \cup {"extra"})}

\* The mappings that are the keys with at most one left out, with or without
\* "extra".
NearMappings(keys) ==
    {MappingOver(K) : K \in {keys, keys \cup {"extra"}}
                           \cup {keys \ {k} : k \in keys}}

\* The call op on the mapping, with the flag ignore_extra_keys, ends as r; the
\* class asked for is kept as the type of the input.
Constructed(op, cls, mapping, ignore_extra_keys, r) ==
    /\ Made([Call(op) EXCEPT !.flag = ignore_extra_keys], [d |-> self, err |-> r.err])
    /\ result' = [input |-> Input(cls, mapping), ret |-> r.ret, items |-> r.items]
    /\ UNCHANGED split_datasets

RecordClasses ==
    {"Info", "License", "Image", "ObjectDetectionCategory",
     "KeypointDetectionCategory", "PanopticSegmentationCategory"}

FromDict ==
    \E cls \in RecordClasses, ignore_extra_keys \in BOOLEAN :
        \E mapping \in Mappings(fields(cls)) :
            Constructed("from_dict", cls, mapping, ignore_extra_keys,
                        from_dict(cls, mapping, ignore_extra_keys))

CategoryKinds == {"object_detection", "keypoint_detection", "panoptic_segmentation"}

AnnotationKinds ==
    {"object_detection", "keypoint_detection", "panoptic_segmentation",
     "image_captioning", "dense_pose"}

DictToCategory ==
    \E kind \in CategoryKinds, ignore_extra_keys \in BOOLEAN :
        \E mapping \in Mappings(DICT_TO_CATEGORY_MAP(kind)) :
            Constructed("dict_to_category", "Category", mapping, ignore_extra_keys,
                        dict_to_category(mapping, ignore_extra_keys))

DictToAnnotation ==
    \E kind \in AnnotationKinds, ignore_extra_keys \in BOOLEAN :
        \E mapping \in NearMappings(DICT_TO_ANNOTATION_MAP(kind))
                        \cup NearMappings(fields("KeypointDetectionAnnotation")) :
            Constructed("dict_to_annotation", "Annotation", mapping, ignore_extra_keys,
                        dict_to_annotation(mapping, ignore_extra_keys))

InitFromDict == InitWith({Empty}, {Empty}, 1)

NextFromDict ==
    \/ FromDict
    \/ DictToCategory
    \/ DictToAnnotation

SpecFromDict == InitFromDict /\ [][NextFromDict]_vars

\* C32: <cls>.from_dict(mapping, ignore_extra_keys) of Info, License, Image
\* and the Category classes raises a schema error (ValueError) exactly when
\* a declared field is missing from the mapping or the mapping carries an
\* undeclared key and strict mode (ignore_extra_keys False) was asked for;
\* otherwise it returns the record of the declared fields, undeclared keys
\* dropped.
C32_FromDictSchemaErrors ==
    Called("from_dict")
    => LET cls == result.input.type
           mapping == result.input.value
           missing == fields(cls) \ DOMAIN mapping
           extra == DOMAIN mapping \ fields(cls)
       IN  IF missing # {} \/ (extra # {} /\ ~Last.flag)
           THEN Last.err = "ValueError"
           ELSE /\ Last.err = ""
                /\ result.ret = "one"
                /\ result.items = <<Record(cls, Only(mapping, fields(cls)))>>

\* The class a dispatch table entry stands for.
CategoryClass(kind) ==
    CASE kind = "object_detection" -> "ObjectDetectionCategory"
      [] kind = "keypoint_detection" -> "KeypointDetectionCategory"
      [] kind = "panoptic_segmentation" -> "PanopticSegmentationCategory"

AnnotationClass(kind) ==
    CASE kind = "object_detection" -> "ObjectDetectionAnnotation"
      [] kind = "keypoint_detection" -> "KeypointDetectionAnnotation"
      [] kind = "panoptic_segmentation" -> "PanopticSegmentationAnnotation"
      [] kind = "image_captioning" -> "ImageCaptioningAnnotation"
      [] kind = "dense_pose" -> "DensePoseAnnotation"

\* The entries whose keys the mapping carries.
MatchingCategoryKinds(mapping) ==
    {kind \in CategoryKinds : DICT_TO_CATEGORY_MAP(kind) \subseteq DOMAIN mapping}

MatchingAnnotationKinds(mapping) ==
    {kind \in AnnotationKinds : DICT_TO_ANNOTATION_MAP(kind) \subseteq DOMAIN mapping}

\* The classes of the most specific of them: those whose keys are a proper
\* subset of no other matching entry's keys.
MostSpecificCategoryClasses(mapping) ==
    {CategoryClass(kind) : kind \in
        {m \in MatchingCategoryKinds(mapping) :
            \A o \in MatchingCategoryKinds(mapping) :
                ~(/\ DICT_TO_CATEGORY_MAP(m) \subseteq DICT_TO_CATEGORY_MAP(o)
                  /\ DICT_TO_CATEGORY_MAP(m) # DICT_TO_CATEGORY_MAP(o))}}

MostSpecificAnnotationClasses(mapping) ==
    {AnnotationClass(kind) : kind \in
        {m \in MatchingAnnotationKinds(mapping) :
            \A o \in MatchingAnnotationKinds(mapping) :
                ~(/\ DICT_TO_ANNOTATION_MAP(m) \subseteq DICT_TO_ANNOTATION_MAP(o)
                  /\ DICT_TO_ANNOTATION_MAP(m) # DICT_TO_ANNOTATION_MAP(o))}}

\* The last call returned a record of one of the classes, or raised
\* ValueError when there is none.
Dispatched(classes) ==
    IF classes = {} THEN Last.err = "ValueError"
    ELSE /\ Last.err = ""
         /\ result.ret = "one"
         /\ result.items[1].cls \in classes

\* C37: with the default policy dict_to_annotation and dict_to_category
\* return a record of the most specific variant whose required keys the
\* mapping carries (keypoint detection and panoptic category rather than the
\* object detection variant whose keys they include), and raise a schema
\* error (ValueError) when no variant matches.
C37_DispatchPicksMostSpecific ==
    /\ (Called("dict_to_category") /\ Last.flag)
       => Dispatched(MostSpecificCategoryClasses(result.input.value))
    /\ (Called("dict_to_annotation") /\ Last.flag)
       => Dispatched(MostSpecificAnnotationClasses(result.input.value))

(***************************************************************************)
(* A dataset as a mapping and back.  The fields the dataset records of     *)
(* this model do not keep (a license's url, an image's width) hold the     *)
(* value ValueOf gives them.                                               *)
(***************************************************************************)
\* asdict of a record: the fields of its class, those the model keeps with
\* their value.
Filled(cls, known) ==
    [k \in fields(cls) |-> IF k \in DOMAIN known THEN known[k] ELSE ValueOf(k)]

annotation_dict(a) ==
    CASE a.kind = "panoptic_segmentation" ->
             [image_id |-> a.image_id, file_name |-> ValueOf("file_name"),
              segments_info |-> [j \in DOMAIN a.segments_info |->
                                    Filled("SegmentInfo", a.segments_info[j])]]
      [] a.kind = "image_captioning" ->
             Filled("ImageCaptioningAnnotation", Only(a, {"id", "image_id"}))
      [] OTHER ->
             Filled("ObjectDetectionAnnotation", Only(a, {"id", "image_id", "category_id"}))

\* asdict(self) without the categories entry.
asdict_but_categories(d) ==
    [info |-> MappingOver(fields("Info")),
     licenses |-> [k \in DOMAIN d.licenses |-> Filled("License", d.licenses[k])],
     images |-> [k \in DOMAIN d.images |-> Filled("Image", d.images[k])],
     annotations |-> [k \in DOMAIN d.annotations |-> annotation_dict(d.annotations[k])]]

category_dicts(d) ==
    [k \in DOMAIN d.categories |-> Filled("ObjectDetectionCategory", d.categories[k])]

\* The mapping of the dataset in the shape from_dict is documented to take:
\* the categories key is there when asked for and the dataset has categories.
coco_dict(d, with_categories) ==
    IF with_categories /\ d.has_categories
    THEN [k \in fields("COCO") |->
             IF k = "categories" THEN category_dicts(d) ELSE asdict_but_categories(d)[k]]
    ELSE asdict_but_categories(d)

\* The error of the first element that raised, "" when none did.
FirstError(results) ==
    IF \A k \in DOMAIN results : results[k].err = "" THEN ""
    ELSE results[CHOOSE k \in DOMAIN results :
                     /\ results[k].err # ""
                     /\ \A j \in 1..(k - 1) : results[j].err = ""].err

\* The dataset record of a constructed annotation; the keypoint and dense
\* pose classes carry id, image_id and category_id as the object detection
\* class does.
annotation_of(record) ==
    IF record.cls = "ImageCaptioningAnnotation"
    THEN ImageCaptioningAnnotation(record.fields.id, record.fields.image_id)
    ELSE ObjectDetectionAnnotation(record.fields.id, record.fields.image_id,
                                   record.fields.category_id)

\* cls(info=..., licenses=..., images=..., annotations=..., categories=...)
\* of COCO.from_dict, the arguments evaluated in that order.
coco_from_parts(info, licenses, images, annotations, has_categories, categories) ==
    LET err == FirstError(<<info>> \o licenses \o images \o annotations \o categories)
    IN  IF err # "" THEN Raising(err)
        ELSE ReturnOne(COCO(
                 [k \in DOMAIN licenses |->
                     License(licenses[k].items[1].fields.id, licenses[k].items[1].fields.name)],
                 has_categories,
                 [k \in DOMAIN categories |->
                     Category(categories[k].items[1].fields.id,
                              categories[k].items[1].fields.name,
                              categories[k].items[1].fields.supercategory)],
                 [k \in DOMAIN images |->
                     Image(images[k].items[1].fields.id, images[k].items[1].fields.file_name,
                           images[k].items[1].fields.license)],
                 [k \in DOMAIN annotations |-> annotation_of(annotations[k].items[1])]))

\* COCO.from_dict(coco_dict, ignore_extra_keys).  compare_dict_structure is
\* called without the flag; dict_to_annotation too.
coco_from_dict(dict, ignore_extra_keys) ==
    IF compare_dict_structure(dict, "COCO", TRUE) # ""
    THEN Raising(compare_dict_structure(dict, "COCO", TRUE))
    ELSE coco_from_parts(
             from_dict("Info", dict.info, ignore_extra_keys),
             [k \in DOMAIN dict.licenses |->
                 from_dict("License", dict.licenses[k], ignore_extra_keys)],
             [k \in DOMAIN dict.images |->
                 from_dict("Image", dict.images[k], ignore_extra_keys)],
             [k \in DOMAIN dict.annotations |-> dict_to_annotation(dict.annotations[k], TRUE)],
             "categories" \in DOMAIN dict,
             IF "categories" \in DOMAIN dict
             THEN [k \in DOMAIN dict.categories |->
                      dict_to_category(dict.categories[k], ignore_extra_keys)]
             ELSE <<>>)

\* A key the iteration over asdict(self) yields is unpacked into (key, value):
\* that takes a string of two characters.
Unpacks(key) == Len(key) = 2

\* to_dict(): {key: value for key, value in asdict(self) if value is not
\* None}.  Iterating the mapping yields its keys, the field names of COCO;
\* none has two characters, so no pair is ever formed and the mapping of the
\* branch that would form them is left empty here.
to_dict(d) ==
    IF \E key \in fields("COCO") : ~Unpacks(key)
    THEN Raising("ValueError")
    ELSE ReturnOne(<<>>)

(***************************************************************************)
(* SpecCOCODict: one conversion of a dataset.  COCO.from_dict gets the     *)
(* mapping of self, with or without its categories key, and self becomes   *)
(* the dataset it returns; to_dict is asked of self.                       *)
(***************************************************************************)
\* COCO.from_dict(mapping, ignore_extra_keys) ends as r: self is the dataset
\* it returned, before the dataset the mapping was taken from.
Converted(op, mapping, ignore_extra_keys, r) ==
    /\ Made([Call(op) EXCEPT !.flag = ignore_extra_keys],
            [d |-> IF r.err = "" THEN r.items[1] ELSE self, err |-> r.err])
    /\ result' = [input |-> Input("dict", mapping), ret |-> r.ret, items |-> <<>>]
    /\ UNCHANGED split_datasets

COCOFromDict ==
    \E with_categories, ignore_extra_keys \in BOOLEAN :
        Converted("COCO.from_dict", coco_dict(self, with_categories), ignore_extra_keys,
                  coco_from_dict(coco_dict(self, with_categories), ignore_extra_keys))

ToDict == Asked("to_dict", Input("None", None), to_dict(self))

\* COCO.from_dict(self.to_dict())
FromDictOfToDict ==
    Converted("from_dict(to_dict)", <<>>, TRUE,
              IF to_dict(self).err # "" THEN to_dict(self)
              ELSE coco_from_dict(to_dict(self).items[1], TRUE))

InitCOCODict == InitWith(CategoryDatasets(FewIds, MaxLen), {Empty}, 1)

NextCOCODict ==
    \/ COCOFromDict
    \/ ToDict
    \/ FromDictOfToDict

SpecCOCODict == InitCOCODict /\ [][NextCOCODict]_vars

\* C33: COCO.from_dict on a mapping with the keys info, licenses, images and
\* annotations and no categories key returns a dataset whose categories is
\* None (here for mappings whose annotations are not panoptic); on a mapping
\* with a categories key the dataset it returns holds the parsed categories.
C33_CategoriesKeyIsOptional ==
    Called("COCO.from_dict")
    => /\ ("categories" \notin DOMAIN result.input.value
           /\ \A k \in DOMAIN before.annotations : ~IsPanoptic(before.annotations[k]))
          => (Last.err = "" /\ ~self.has_categories)
       /\ ("categories" \in DOMAIN result.input.value /\ Last.err = "")
          => (self.has_categories /\ self.categories = before.categories)

\* C38: to_dict() returns a mapping with the keys info, licenses, images and
\* annotations and, only when categories is not None, categories; and
\* COCO.from_dict(D.to_dict()) returns a dataset equal to D.
C38_ToDictFromDictRoundTrip ==
    /\ Called("to_dict")
       => /\ Last.err = "" /\ result.ret = "one"
          /\ DOMAIN result.items[1]
                = {"info", "licenses", "images", "annotations"}
                  \cup (IF self.has_categories THEN {"categories"} ELSE {})
    /\ Called("from_dict(to_dict)")
       => (Last.err = "" /\ Same(self, before))

====
